---- MODULE Spec2Model ----
(***************************************************************************)
(* firewall-bridge-linux v2: the lifecycle state machine (state.rs), the   *)
(* entry points that drive it (lib.rs) and the store facade (db.rs), with  *)
(* the kernel (the private nftables table `inet phantom` and the routing   *)
(* policy database) as the environment.                                    *)
(*                                                                         *)
(* Every entry point runs under the process-wide Mutex (lib.rs:28,65-71),  *)
(* so one API call is one action.  A call is computed on a record m that   *)
(* holds the process state, the store and the kernel, in program order.    *)
(* Its inputs are the arguments and an environment record env:             *)
(*   env.kfail   the kernel operations of this call that fail              *)
(*   env.dbfail  the store operations of this call (counted in program     *)
(*               order) that return Err                                    *)
(*   env.dies    whether the process dies during this call, and             *)
(*   env.crash   the number of effects after which it does                  *)
(* Group names are identified by their rank in SQLite's collation order.   *)
(***************************************************************************)
EXTENDS Integers, Sequences, FiniteSets, TLC

\* ---- bounds of the model ------------------------------------------------
MaxGroups == 2
MaxFw == 2
MaxRt == 2
MaxRules == 3
MaxFaultyRules == 2
NumNames == 2
NumPriorities == 2
MaxKernelRules == 2
MaxDbFaults == 1
NumThreads == 2
MaxSends == 3
MaxNodes == 2
MaxAdds == 4

Names == 1..NumNames
Priorities == 1..NumPriorities
Chains == {"input"}

VARIABLES
    status, db, nft, last_error,
    cfg, flags, groups, fw, rt, seqG, seqFw, seqRt,
    ktable, kchains, knft, krt,
    lock, run, serial,
    sent, nlret,
    lookup,
    held, pc, log_cb

progVars == <<status, db, nft, last_error>>
storeVars == <<cfg, flags, groups, fw, rt, seqG, seqFw, seqRt>>
kernelVars == <<ktable, kchains, knft, krt>>
threadVars == <<lock, run, serial>>
nlVars == <<sent, nlret, lookup>>
lockVars == <<held, pc, log_cb>>
vars == <<status, db, nft, last_error, cfg, flags, groups, fw, rt, seqG, seqFw, seqRt,
          ktable, kchains, knft, krt, lock, run, serial, sent, nlret,
          lookup, held, pc, log_cb>>

\* ---- the machine record -------------------------------------------------
\* The state a call works on, with the call's counters: n store operations
\* and e effects performed so far, the kernel operations it issued (trace),
\* and its result (ret, "" while the call is still running).
Cur ==
    [status |-> status, db |-> db, nft |-> nft, last_error |-> last_error,
     cfg |-> cfg, flags |-> flags, groups |-> groups, fw |-> fw, rt |-> rt,
     seqG |-> seqG, seqFw |-> seqFw, seqRt |-> seqRt,
     ktable |-> ktable, kchains |-> kchains, knft |-> knft, krt |-> krt,
     n |-> 0, e |-> 0, trace |-> <<>>, ret |-> ""]

\* The fields of FirewallState, the store and the kernel after a call's
\* closure has run as far as m.
Write(m) ==
    /\ status' = m.status /\ db' = m.db /\ nft' = m.nft
    /\ last_error' = m.last_error
    /\ cfg' = m.cfg /\ flags' = m.flags
    /\ groups' = m.groups /\ fw' = m.fw /\ rt' = m.rt
    /\ seqG' = m.seqG /\ seqFw' = m.seqFw /\ seqRt' = m.seqRt
    /\ ktable' = m.ktable /\ kchains' = m.kchains
    /\ knft' = m.knft /\ krt' = m.krt
    /\ UNCHANGED nlVars

\* with_state: the closure runs from taking the lock to dropping the guard
\* with no other thread's call in between.
Commit(m) == Write(m) /\ UNCHANGED <<threadVars, lockVars>>

\* The text of a message is not modelled, only that one was written.
Message == "error"

Return(m, code) == [m EXCEPT !.ret = code]

\* ---- environment primitives ---------------------------------------------
Dead(m, env) == env.dies /\ m.e >= env.crash
DbErr(m, env) == (m.n + 1) \in env.dbfail

\* A store query: counted, no effect.
DbQuery(m) == [m EXCEPT !.n = @ + 1]

\* A store write: m2 is m with the statement applied.
DbWrite(m, env, m2) ==
    IF Dead(m, env) THEN m
    ELSE IF DbErr(m, env) THEN [m EXCEPT !.n = @ + 1, !.e = @ + 1]
    ELSE [m2 EXCEPT !.n = m.n + 1, !.e = m.e + 1]

\* A kernel operation: ok says whether it succeeds, m2 is m with its effect.
KOp(m, env, entry, ok, m2) ==
    IF Dead(m, env) THEN m
    ELSE [(IF ok THEN m2 ELSE m) EXCEPT
            !.e = m.e + 1, !.trace = Append(m.trace, entry)]

Ev(k, id, h, ok) == [k |-> k, id |-> id, h |-> h, ok |-> ok]

KFail(env, k, id) == <<k, id>> \in env.kfail

\* ---- db.rs: the store facade ----------------------------------------------
\* A variant that orders the groups by name alone.
GroupLessByName(m, a, b) == m.groups[a].name < m.groups[b].name

\* ORDER BY priority, name
GroupLess(m, a, b) ==
    \/ m.groups[a].priority < m.groups[b].priority
    \/ /\ m.groups[a].priority = m.groups[b].priority
       /\ m.groups[a].name < m.groups[b].name

RECURSIVE OrderGroups(_, _)
OrderGroups(m, S) ==
    IF S = {} THEN <<>>
    ELSE LET x == CHOOSE x \in S : \A y \in S \ {x} : GroupLess(m, x, y)
         IN <<x>> \o OrderGroups(m, S \ {x})

\* A variant without the ORDER BY: the rows as they were inserted.
RECURSIVE RowidOrder(_)
RowidOrder(S) ==
    IF S = {} THEN <<>>
    ELSE LET x == CHOOSE x \in S : \A y \in S : x <= y
         IN <<x>> \o RowidOrder(S \ {x})

list_rule_groups_unordered(m) == RowidOrder(DOMAIN m.groups)

list_rule_groups(m) == OrderGroups(m, DOMAIN m.groups)

\* A variant without the WHERE enabled = 1.
enabled_groups_all(m) == OrderGroups(m, DOMAIN m.groups)

enabled_groups(m) == OrderGroups(m, {g \in DOMAIN m.groups : m.groups[g].enabled})

\* ORDER BY position, id
FwLess(m, a, b) ==
    \/ m.fw[a].position < m.fw[b].position
    \/ /\ m.fw[a].position = m.fw[b].position
       /\ a < b

RECURSIVE OrderFw(_, _)
OrderFw(m, S) ==
    IF S = {} THEN <<>>
    ELSE LET x == CHOOSE x \in S : \A y \in S \ {x} : FwLess(m, x, y)
         IN <<x>> \o OrderFw(m, S \ {x})

firewall_rules_for_group(m, gid) ==
    OrderFw(m, {i \in DOMAIN m.fw : m.fw[i].group_id = gid})

\* ORDER BY id
RECURSIVE OrderIds(_)
OrderIds(S) ==
    IF S = {} THEN <<>>
    ELSE LET x == CHOOSE x \in S : \A y \in S : x <= y
         IN <<x>> \o OrderIds(S \ {x})

routing_rules_for_group(m, gid) ==
    OrderIds({i \in DOMAIN m.rt : m.rt[i].group_id = gid})

\* WHERE applied = 1 ORDER BY group_id, id
RtLess(m, a, b) ==
    \/ m.rt[a].group_id < m.rt[b].group_id
    \/ /\ m.rt[a].group_id = m.rt[b].group_id
       /\ a < b

RECURSIVE OrderRt(_, _)
OrderRt(m, S) ==
    IF S = {} THEN <<>>
    ELSE LET x == CHOOSE x \in S : \A y \in S \ {x} : RtLess(m, x, y)
         IN <<x>> \o OrderRt(m, S \ {x})

applied_routing_rules(m) == OrderRt(m, {i \in DOMAIN m.rt : m.rt[i].applied})

\* INSERT OR IGNORE INTO config (id, ...) VALUES (1, ...): state DEFAULT 'initialized'
init_config(m) == IF m.cfg = "absent" THEN [m EXCEPT !.cfg = "initialized"] ELSE m

\* The flag columns of the config row, each DEFAULT 0.
Flags == {"ip_forward_enabled", "ipv6_blocked", "kill_switch_active"}

NoFlags == [c \in Flags |-> FALSE]

\* A variant that writes the value to every flag column.
set_config_flag_all(m, column, value) ==
    IF column \notin Flags THEN Return(m, "Err")
    ELSE IF m.cfg = "absent" THEN Return(m, "Ok")
    ELSE Return([m EXCEPT !.flags = [c \in Flags |-> value]], "Ok")

\* set_config_flag: the allow-list, then
\* UPDATE config SET {column} = ?1, updated_at = ?2 WHERE id = 1
set_config_flag(m, column, value) ==
    IF column \notin Flags THEN Return(m, "Err")
    ELSE IF m.cfg = "absent" THEN Return(m, "Ok")
    ELSE Return([m EXCEPT !.flags[column] = value], "Ok")

\* A variant that leaves the state column as it is.
set_state_keep(m, s) == m

\* UPDATE config SET state = ?1 WHERE id = 1
set_state(m, s) == IF m.cfg = "absent" THEN m ELSE [m EXCEPT !.cfg = s]

\* A variant that writes the flag and leaves the handle column alone.
update_fw_rule_flag_only(m, id, applied, handle) ==
    IF id \in DOMAIN m.fw THEN [m EXCEPT !.fw[id].applied = applied] ELSE m

\* UPDATE firewall_rules SET applied = ?1, nft_handle = ?2 WHERE id = ?3
update_fw_rule_applied(m, id, applied, handle) ==
    IF id \in DOMAIN m.fw
    THEN [m EXCEPT !.fw[id].applied = applied, !.fw[id].nft_handle = handle]
    ELSE m

\* UPDATE routing_rules SET applied = ?1 WHERE id = ?2
update_rt_rule_applied(m, id, applied) ==
    IF id \in DOMAIN m.rt THEN [m EXCEPT !.rt[id].applied = applied] ELSE m

\* UPDATE firewall_rules SET applied = 0, nft_handle = 0
clear_fw_applied_state(m) ==
    [m EXCEPT !.fw = [i \in DOMAIN m.fw |->
                        [m.fw[i] EXCEPT !.applied = FALSE, !.nft_handle = 0]]]

\* UPDATE routing_rules SET applied = 0
clear_rt_applied_state(m) ==
    [m EXCEPT !.rt = [i \in DOMAIN m.rt |-> [m.rt[i] EXCEPT !.applied = FALSE]]]

\* ---- the kernel adapters --------------------------------------------------
\* nft.rs: flush table inet phantom
flush_ok(m, env) == m.ktable /\ ~KFail(env, "flush", 0)

flush_table(m, env) ==
    KOp(m, env, Ev("flush", 0, 0, flush_ok(m, env)), flush_ok(m, env),
        [m EXCEPT !.knft = {}])

\* nft.rs: add table, add chain input, forward, postrouting
ensure_ok(m, env) == ~KFail(env, "ensure", 0)

ensure_table(m, env) ==
    KOp(m, env, Ev("ensure", 0, 0, ensure_ok(m, env)), ensure_ok(m, env),
        [m EXCEPT !.ktable = TRUE,
                  !.kchains = @ \cup {"input", "forward", "postrouting"}])

\* The handle the kernel gives a new rule: one that names no other rule.
\* Handles are only compared for equality, so the smallest one that is
\* neither in the table nor recorded in the store stands for a fresh one.
UsedHandles(m) ==
    {r.handle : r \in m.knft} \cup {m.fw[i].nft_handle : i \in DOMAIN m.fw}

NewHandle(m) ==
    CHOOSE h \in 1..(Cardinality(UsedHandles(m)) + 1) :
        /\ h \notin UsedHandles(m)
        /\ \A k \in 1..(h - 1) : k \in UsedHandles(m)

\* nft::apply_rule: add rule inet phantom <chain> ... comment "phantom-rule-<id>";
\* returns the handle of the new rule.
apply_rule_ok(m, env, id) ==
    /\ ~KFail(env, "fw_add", id)
    /\ m.ktable
    /\ m.fw[id].chain \in m.kchains
    /\ Cardinality(m.knft) < MaxKernelRules

apply_rule(m, env, id) ==
    KOp(m, env,
        Ev("fw_add", id, IF apply_rule_ok(m, env, id) THEN NewHandle(m) ELSE 0,
           apply_rule_ok(m, env, id)),
        apply_rule_ok(m, env, id),
        [m EXCEPT !.knft = @ \cup {[handle |-> NewHandle(m), id |-> id,
                                    chain |-> m.fw[id].chain]}])

\* nft::remove_rule_by_handle: delete rule inet phantom <chain> handle <H>
remove_rule_ok(m, env, chain, h) ==
    /\ ~KFail(env, "fw_del", h)
    /\ \E r \in m.knft : r.handle = h /\ r.chain = chain

remove_rule_by_handle(m, env, chain, h) ==
    KOp(m, env, Ev("fw_del", 0, h, remove_rule_ok(m, env, chain, h)),
        remove_rule_ok(m, env, chain, h),
        [m EXCEPT !.knft = {r \in @ : r.handle # h}])

\* route::apply_routing_rule: RTM_NEWRULE / RTM_NEWROUTE with
\* NLM_F_CREATE | NLM_F_EXCL: a rule that is already installed is refused.
apply_routing_ok(m, env, id) == ~KFail(env, "rt_add", id) /\ id \notin m.krt

apply_routing_rule(m, env, id) ==
    KOp(m, env, Ev("rt_add", id, 0, apply_routing_ok(m, env, id)),
        apply_routing_ok(m, env, id),
        [m EXCEPT !.krt = @ \cup {id}])

\* route::remove_routing_rule: RTM_DELRULE / RTM_DELROUTE, structural
remove_routing_ok(m, env, id) == ~KFail(env, "rt_del", id) /\ id \in m.krt

remove_routing_rule(m, env, id) ==
    KOp(m, env, Ev("rt_del", id, 0, remove_routing_ok(m, env, id)),
        remove_routing_ok(m, env, id),
        [m EXCEPT !.krt = @ \ {id}])

\* ---- state.rs: Status --------------------------------------------------------
\* Status::as_str
as_str(st) ==
    CASE st = "Uninitialized" -> "uninitialized"
      [] st = "Initialized" -> "initialized"
      [] st = "Started" -> "started"
      [] st = "Stopped" -> "stopped"
      [] OTHER -> "error"

\* ---- state.rs: FirewallState ------------------------------------------------
\* A variant that gives up the group's filter rules at the first failure.
RECURSIVE start_fw_rules_abort(_, _, _)
start_fw_rules_abort(m, env, rules) ==
    IF rules = <<>> THEN m
    ELSE LET id == Head(rules)
             m1 == apply_rule(m, env, id)
         IN IF apply_rule_ok(m, env, id)
            THEN start_fw_rules_abort(
                     DbWrite(m1, env, update_fw_rule_applied(m1, id, TRUE, NewHandle(m))),
                     env, Tail(rules))
            ELSE [m1 EXCEPT !.last_error = Message]

\* start, lines 116-126: the filter rules of one group
RECURSIVE start_fw_rules(_, _, _)
start_fw_rules(m, env, rules) ==
    IF rules = <<>> THEN m
    ELSE LET id == Head(rules)
             m1 == apply_rule(m, env, id)
             m2 == IF apply_rule_ok(m, env, id)
                   THEN DbWrite(m1, env,
                                update_fw_rule_applied(m1, id, TRUE, NewHandle(m)))
                   ELSE [m1 EXCEPT !.last_error = Message]
         IN start_fw_rules(m2, env, Tail(rules))

\* start, lines 129-138: the routing rules of one group
RECURSIVE start_rt_rules(_, _, _)
start_rt_rules(m, env, rules) ==
    IF rules = <<>> THEN m
    ELSE LET id == Head(rules)
             m1 == apply_routing_rule(m, env, id)
             m2 == IF apply_routing_ok(m, env, id)
                   THEN DbWrite(m1, env, update_rt_rule_applied(m1, id, TRUE))
                   ELSE [m1 EXCEPT !.last_error = Message]
         IN start_rt_rules(m2, env, Tail(rules))

\* start, lines 114-139: the enabled groups in order
RECURSIVE start_groups(_, _, _)
start_groups(m, env, gs) ==
    IF gs = <<>> THEN m
    ELSE IF DbErr(m, env) THEN Return(DbQuery(m), "DbQuery")
    ELSE LET m1 == start_fw_rules(DbQuery(m), env,
                                  firewall_rules_for_group(m, Head(gs)))
         IN IF DbErr(m1, env)
            THEN Return(DbQuery(m1), "DbQuery")
            ELSE start_groups(
                     start_rt_rules(DbQuery(m1), env,
                                    routing_rules_for_group(m1, Head(gs))),
                     env, Tail(gs))

\* start, lines 141-144
start_finish(m, env) ==
    IF m.ret # "" THEN m
    ELSE IF DbErr(m, env) THEN Return(DbWrite(m, env, m), "DbWrite")
    ELSE Return([DbWrite(m, env, set_state(m, "started")) EXCEPT !.status = "Started"],
                "Ok")

\* A variant that takes Started for a state start may run from.
start_guard_restart(m) ==
    IF m.status \in {"Initialized", "Stopped", "Started"} THEN "" ELSE "InvalidState"

\* start, lines 100-104
start_guard(m) ==
    IF m.status \in {"Initialized", "Stopped"} THEN ""
    ELSE IF m.status = "Started" THEN "AlreadyStarted"
    ELSE "InvalidState"

start(m, env) ==
    IF start_guard(m) = "AlreadyStarted" THEN Return(m, "AlreadyStarted")
    ELSE IF start_guard(m) # "" THEN Return(m, "InvalidState")
    ELSE IF ~m.db THEN Return(m, "NotInitialized")
    ELSE IF ~m.nft THEN Return(m, "NotInitialized")
    ELSE IF ~flush_ok(m, env)
         THEN Return(flush_table(m, env), "NftablesFailed")
    ELSE LET m1 == flush_table(m, env)
         IN IF DbErr(m1, env) THEN Return(DbQuery(m1), "DbQuery")
            ELSE start_finish(start_groups(DbQuery(m1), env, enabled_groups(m1)), env)

\* A variant that gives up the removals at the first failure.
RECURSIVE stop_rt_rules_abort(_, _, _)
stop_rt_rules_abort(m, env, rules) ==
    IF rules = <<>> THEN m
    ELSE IF remove_routing_ok(m, env, Head(rules))
         THEN stop_rt_rules_abort(remove_routing_rule(m, env, Head(rules)), env,
                                  Tail(rules))
         ELSE remove_routing_rule(m, env, Head(rules))

\* stop, lines 160-164
RECURSIVE stop_rt_rules(_, _, _)
stop_rt_rules(m, env, rules) ==
    IF rules = <<>> THEN m
    ELSE stop_rt_rules(remove_routing_rule(m, env, Head(rules)), env, Tail(rules))

\* stop, lines 167-168
stop_clear(m, env) ==
    LET m1 == DbWrite(m, env, clear_fw_applied_state(m))
    IN DbWrite(m1, env, clear_rt_applied_state(m1))

\* A variant that lets stop run from every initialized state.
stop_guard_open(m) == m.status # "Uninitialized"

\* stop, lines 149-151
stop_guard(m) == m.status = "Started"

stop(m, env) ==
    IF ~stop_guard(m) THEN Return(m, "NotStarted")
    ELSE IF ~m.db THEN Return(m, "NotInitialized")
    ELSE IF ~m.nft THEN Return(m, "NotInitialized")
    ELSE LET m1 == flush_table(m, env)
             m2 == IF DbErr(m1, env) THEN DbQuery(m1)
                   ELSE stop_rt_rules(DbQuery(m1), env, applied_routing_rules(m1))
             m3 == stop_clear(m2, env)
         IN IF DbErr(m3, env) THEN Return(DbWrite(m3, env, m3), "DbWrite")
            ELSE Return([DbWrite(m3, env, set_state(m3, "stopped"))
                           EXCEPT !.status = "Stopped"], "Ok")

\* close_internal, lines 185-189: the context and the store handle are dropped
release(m) ==
    [m EXCEPT !.nft = FALSE, !.db = FALSE,
              !.trace = @ \o (IF m.nft THEN <<Ev("nft_free", 0, 0, TRUE)>> ELSE <<>>)
                          \o (IF m.db THEN <<Ev("db_close", 0, 0, TRUE)>> ELSE <<>>)]

\* A variant that drops the handles before it stops.
close_release_first(m, env) ==
    LET m1 == release(m)
        m2 == IF m1.status = "Started" THEN stop(m1, env) ELSE m1
    IN Return([m2 EXCEPT !.status = "Uninitialized", !.last_error = ""], "Ok")

close_internal(m, env) ==
    LET m1 == IF m.status = "Started" THEN stop(m, env) ELSE m
    IN Return([release(m1) EXCEPT !.status = "Uninitialized", !.last_error = ""],
              "Ok")

\* init, lines 73-88: open the store, clear the flags, create the context
init_open(m, env) ==
    IF DbErr(m, env) THEN Return(DbQuery(m), "DbOpen")
    ELSE LET m1 == DbQuery(m)
         IN IF DbErr(m1, env) THEN Return(DbWrite(m1, env, m1), "DbWrite")
    ELSE LET m2 == DbWrite(m1, env, init_config(m1))
         IN IF DbErr(m2, env)
            THEN Return(DbWrite(m2, env, m2), "DbWrite")
    ELSE LET m3 == DbWrite(m2, env, clear_fw_applied_state(m2))
         IN IF DbErr(m3, env)
            THEN Return(DbWrite(m3, env, m3), "DbWrite")
    ELSE LET m4 == DbWrite(m3, env, clear_rt_applied_state(m3))
         IN IF KFail(env, "ctx_new", 0)
            THEN Return(m4, "NftablesFailed")
    ELSE IF ~ensure_ok(m4, env)
         THEN Return(ensure_table(m4, env), "NftablesFailed")
    ELSE LET m5 == ensure_table(m4, env)
         IN IF DbErr(m5, env) THEN Return(DbWrite(m5, env, m5), "DbWrite")
            ELSE Return([DbWrite(m5, env, set_state(m5, "initialized")) EXCEPT
                           !.db = TRUE, !.nft = TRUE, !.status = "Initialized",
                           !.last_error = ""],
                        "Ok")

\* A variant that opens the store over the current incarnation.
init_without_close(m, env) == init_open(m, env)

init(m, env) ==
    init_open(IF m.status # "Uninitialized" THEN Return(close_internal(m, env), "")
              ELSE m, env)

\* ---- lib.rs: the lifecycle entry points ------------------------------------
\* err_result, lines 92-95
err_result(m, code) == [m EXCEPT !.last_error = Message, !.ret = code]

\* match s.init(path) { Ok(()) => Ok, Err((code, msg)) => err_result(s, code, &msg) }
Outcome(r) == IF r.ret = "Ok" THEN r ELSE err_result(r, r.ret)

firewall_bridge_init(m, env, path) ==
    IF path = "" THEN err_result(m, "InvalidParam")
    ELSE Outcome(init(m, env))

firewall_bridge_start(m, env) == Outcome(start(m, env))

firewall_bridge_stop(m, env) == Outcome(stop(m, env))

firewall_bridge_close(m, env) == Outcome(close_internal(m, env))

\* ---- db.rs: rows --------------------------------------------------------
NoRows == [i \in {} |-> 0]

Without(f, S) == [i \in (DOMAIN f) \ S |-> f[i]]

With(f, i, v) == [j \in (DOMAIN f) \cup {i} |-> IF j = i THEN v ELSE f[j]]

\* SELECT * FROM rule_groups WHERE name = ?1: the id of the group, 0 for no row
get_rule_group(m, name) ==
    IF \E g \in DOMAIN m.groups : m.groups[g].name = name
    THEN CHOOSE g \in DOMAIN m.groups : m.groups[g].name = name
    ELSE 0

\* A variant without the UNIQUE constraint on the name.
create_rule_group_any(m, name) == TRUE

\* INSERT INTO rule_groups: name UNIQUE, enabled DEFAULT 1, id AUTOINCREMENT
create_rule_group_ok(m, name) == get_rule_group(m, name) = 0

create_rule_group(m, name, priority) ==
    [m EXCEPT !.seqG = @ + 1,
              !.groups = With(@, m.seqG + 1,
                              [name |-> name, enabled |-> TRUE, priority |-> priority])]

\* A variant without the WHERE name = ?3.
set_group_enabled_all(m, name, enabled) ==
    [m EXCEPT !.groups = [g \in DOMAIN @ |-> [@[g] EXCEPT !.enabled = enabled]]]

\* UPDATE rule_groups SET enabled = ?1 WHERE name = ?3
set_group_enabled(m, name, enabled) ==
    [m EXCEPT !.groups = [g \in DOMAIN @ |->
        IF @[g].name = name THEN [@[g] EXCEPT !.enabled = enabled] ELSE @[g]]]

\* A variant without the cascade.
delete_rule_group_only(m, name) ==
    [m EXCEPT !.groups = Without(@, {get_rule_group(m, name)})]

\* DELETE FROM rule_groups WHERE name = ?1, with ON DELETE CASCADE on both rule tables
delete_rule_group(m, name) ==
    LET g == get_rule_group(m, name)
    IN [m EXCEPT !.groups = Without(@, {g}),
                 !.fw = Without(@, {i \in DOMAIN @ : @[i].group_id = g}),
                 !.rt = Without(@, {i \in DOMAIN @ : @[i].group_id = g})]

\* INSERT INTO firewall_rules: applied DEFAULT 0, nft_handle DEFAULT 0
insert_firewall_rule(m, gid, chain, position) ==
    [m EXCEPT !.seqFw = @ + 1,
              !.fw = With(@, m.seqFw + 1,
                          [group_id |-> gid, chain |-> chain, position |-> position,
                           applied |-> FALSE, nft_handle |-> 0])]

\* DELETE FROM firewall_rules WHERE id = ?1
delete_firewall_rule(m, id) == [m EXCEPT !.fw = Without(@, {id})]

\* INSERT INTO routing_rules: applied DEFAULT 0
insert_routing_rule(m, gid) ==
    [m EXCEPT !.seqRt = @ + 1,
              !.rt = With(@, m.seqRt + 1, [group_id |-> gid, applied |-> FALSE])]

\* DELETE FROM routing_rules WHERE id = ?1
delete_routing_rule(m, id) == [m EXCEPT !.rt = Without(@, {id})]

\* ---- lib.rs: rule groups ------------------------------------------------
NoName == 0

\* apply_group_rules, lines 283-289
RECURSIVE apply_group_fw(_, _, _)
apply_group_fw(m, env, rules) ==
    IF rules = <<>> THEN m
    ELSE LET id == Head(rules)
             m1 == apply_rule(m, env, id)
         IN IF apply_rule_ok(m, env, id)
            THEN apply_group_fw(
                     DbWrite(m1, env, update_fw_rule_applied(m1, id, TRUE, NewHandle(m))),
                     env, Tail(rules))
            ELSE Return(m1, "Err")

\* apply_group_rules, lines 291-297
RECURSIVE apply_group_rt(_, _, _)
apply_group_rt(m, env, rules) ==
    IF rules = <<>> THEN m
    ELSE LET id == Head(rules)
             m1 == apply_routing_rule(m, env, id)
         IN IF apply_routing_ok(m, env, id)
            THEN apply_group_rt(DbWrite(m1, env, update_rt_rule_applied(m1, id, TRUE)),
                                env, Tail(rules))
            ELSE Return(m1, "Err")

\* The result is Err when ret is "Err", Ok(()) when ret is still "".
apply_group_rules(m, env, name) ==
    IF ~m.db THEN Return(m, "Err")
    ELSE IF ~m.nft THEN Return(m, "Err")
    ELSE IF DbErr(m, env) \/ get_rule_group(m, name) = 0
         THEN Return(DbQuery(m), "Err")
    ELSE LET g == get_rule_group(m, name)
             m1 == DbQuery(m)
         IN IF DbErr(m1, env) THEN Return(DbQuery(m1), "Err")
    ELSE LET m2 == apply_group_fw(DbQuery(m1), env, firewall_rules_for_group(m1, g))
         IN IF m2.ret # "" THEN m2
            ELSE IF DbErr(m2, env)
                 THEN Return(DbQuery(m2), "Err")
            ELSE apply_group_rt(DbQuery(m2), env, routing_rules_for_group(m2, g))

\* disable_group_internal, lines 308-313
RECURSIVE disable_group_fw(_, _, _)
disable_group_fw(m, env, rules) ==
    IF rules = <<>> THEN m
    ELSE LET id == Head(rules)
             m1 == IF m.fw[id].applied /\ m.fw[id].nft_handle > 0
                   THEN remove_rule_by_handle(m, env, m.fw[id].chain, m.fw[id].nft_handle)
                   ELSE m
         IN disable_group_fw(DbWrite(m1, env, update_fw_rule_applied(m1, id, FALSE, 0)),
                             env, Tail(rules))

\* disable_group_internal, lines 317-322
RECURSIVE disable_group_rt(_, _, _)
disable_group_rt(m, env, rules) ==
    IF rules = <<>> THEN m
    ELSE LET id == Head(rules)
             m1 == IF m.rt[id].applied THEN remove_routing_rule(m, env, id) ELSE m
         IN disable_group_rt(DbWrite(m1, env, update_rt_rule_applied(m1, id, FALSE)),
                             env, Tail(rules))

\* A variant that leaves the group's rules where they are.
disable_group_skip(m, env, name) == m

\* Both callers discard the Result, so only the state it leaves is kept.
disable_group_internal(m, env, name) ==
    IF ~m.db \/ ~m.nft THEN m
    ELSE IF DbErr(m, env) \/ get_rule_group(m, name) = 0 THEN DbQuery(m)
    ELSE LET g == get_rule_group(m, name)
             m1 == DbQuery(m)
         IN IF DbErr(m1, env) THEN DbQuery(m1)
    ELSE LET m2 == disable_group_fw(DbQuery(m1), env, firewall_rules_for_group(m1, g))
         IN IF DbErr(m2, env) THEN DbQuery(m2)
            ELSE disable_group_rt(DbQuery(m2), env, routing_rules_for_group(m2, g))

fw_create_rule_group(m, env, name, priority) ==
    IF name = NoName THEN Return(m, "Null")
    ELSE IF ~m.db THEN [Return(m, "Null") EXCEPT !.last_error = Message]
    ELSE IF DbErr(m, env) \/ ~create_rule_group_ok(m, name)
         THEN [Return(DbWrite(m, env, m), "Null") EXCEPT
                 !.last_error = Message]
    ELSE LET m1 == DbWrite(m, env, create_rule_group(m, name, priority))
         IN IF DbErr(m1, env)
            THEN [Return(DbQuery(m1), "Null") EXCEPT !.last_error = Message]
            ELSE Return(DbQuery(m1), "Ok")

fw_delete_rule_group(m, env, name) ==
    IF name = NoName THEN Return(m, "InvalidParam")
    ELSE LET m1 == IF m.status = "Started" THEN disable_group_internal(m, env, name)
                   ELSE m
         IN IF ~m1.db THEN err_result(m1, "NotInitialized")
            ELSE IF DbErr(m1, env) \/ get_rule_group(m1, name) = 0
                 THEN err_result(DbWrite(m1, env, m1), "GroupNotFound")
            ELSE Return(DbWrite(m1, env, delete_rule_group(m1, name)), "Ok")

fw_enable_rule_group(m, env, name) ==
    IF ~m.db THEN err_result(m, "NotInitialized")
    ELSE IF DbErr(m, env) \/ get_rule_group(m, name) = 0
         THEN err_result(DbWrite(m, env, m), "GroupNotFound")
    ELSE LET m1 == DbWrite(m, env, set_group_enabled(m, name, TRUE))
         IN IF m1.status # "Started" THEN Return(m1, "Ok")
            ELSE LET m2 == apply_group_rules(m1, env, name)
                 IN IF m2.ret = "Err" THEN err_result(m2, "NftablesFailed")
                    ELSE Return(m2, "Ok")

fw_disable_rule_group(m, env, name) ==
    LET m1 == IF m.status = "Started" THEN disable_group_internal(m, env, name) ELSE m
    IN IF ~m1.db THEN err_result(m1, "NotInitialized")
       ELSE IF DbErr(m1, env) \/ get_rule_group(m1, name) = 0
            THEN err_result(DbWrite(m1, env, m1), "GroupNotFound")
       ELSE Return(DbWrite(m1, env, set_group_enabled(m1, name, FALSE)), "Ok")

\* ---- lib.rs: rules --------------------------------------------------------
\* A variant that leaves the new rule for a later start.
fw_add_defer(m, env, id) == m

\* fw_add_rule, lines 374-387: the rule is offered when started and the group is enabled
fw_add_apply(m, env, id) ==
    IF DbErr(m, env) THEN DbQuery(m)
    ELSE IF ~m.nft THEN DbQuery(m)
    ELSE LET m1 == DbQuery(m)
             m2 == apply_rule(m1, env, id)
         IN IF apply_rule_ok(m1, env, id)
            THEN DbWrite(m2, env, update_fw_rule_applied(m2, id, TRUE, NewHandle(m1)))
            ELSE m2

fw_add_rule(m, env, name, chain) ==
    IF ~m.db THEN Return(m, "NotInitialized")
    ELSE IF DbErr(m, env) \/ get_rule_group(m, name) = 0
         THEN Return(DbQuery(m), "GroupNotFound")
    ELSE LET g == get_rule_group(m, name)
             m1 == DbQuery(m)
             position == IF DbErr(m1, env) THEN 0
                         ELSE Len(firewall_rules_for_group(m1, g))
             m2 == DbQuery(m1)
         IN IF DbErr(m2, env)
            THEN [Return(DbWrite(m2, env, m2), "DbWrite") EXCEPT
                    !.last_error = Message]
            ELSE LET m3 == DbWrite(m2, env, insert_firewall_rule(m2, g, chain, position))
                 IN Return(IF m3.status = "Started" /\ m.groups[g].enabled
                           THEN fw_add_apply(m3, env, m2.seqFw + 1)
                           ELSE m3,
                           "Ok")

fw_remove_rule(m, env, rule_id) ==
    IF ~m.db THEN err_result(m, "NotInitialized")
    ELSE LET m1 == IF /\ ~DbErr(m, env)
                      /\ rule_id \in DOMAIN m.fw
                      /\ m.fw[rule_id].applied /\ m.fw[rule_id].nft_handle > 0
                      /\ m.nft
                   THEN remove_rule_by_handle(DbQuery(m), env, m.fw[rule_id].chain,
                                              m.fw[rule_id].nft_handle)
                   ELSE DbQuery(m)
         IN IF DbErr(m1, env)
            THEN err_result(DbWrite(m1, env, m1), "RuleNotFound")
            ELSE Return(DbWrite(m1, env, delete_firewall_rule(m1, rule_id)), "Ok")

\* rt_add_rule, lines 484-493
rt_add_apply(m, env, id) ==
    IF DbErr(m, env) THEN DbQuery(m)
    ELSE LET m1 == DbQuery(m)
             m2 == apply_routing_rule(m1, env, id)
         IN IF apply_routing_ok(m1, env, id)
            THEN DbWrite(m2, env, update_rt_rule_applied(m2, id, TRUE))
            ELSE m2

rt_add_rule(m, env, name) ==
    IF ~m.db THEN Return(m, "NotInitialized")
    ELSE IF DbErr(m, env) \/ get_rule_group(m, name) = 0
         THEN Return(DbQuery(m), "GroupNotFound")
    ELSE LET g == get_rule_group(m, name)
             m1 == DbQuery(m)
         IN IF DbErr(m1, env)
            THEN [Return(DbWrite(m1, env, m1), "DbWrite") EXCEPT
                    !.last_error = Message]
            ELSE LET m2 == DbWrite(m1, env, insert_routing_rule(m1, g))
                 IN Return(IF m2.status = "Started" /\ m.groups[g].enabled
                           THEN rt_add_apply(m2, env, m1.seqRt + 1)
                           ELSE m2,
                           "Ok")

rt_remove_rule(m, env, rule_id) ==
    IF ~m.db THEN err_result(m, "NotInitialized")
    ELSE LET m1 == IF /\ ~DbErr(m, env)
                      /\ rule_id \in DOMAIN m.rt
                      /\ m.rt[rule_id].applied
                   THEN remove_routing_rule(DbQuery(m), env, rule_id)
                   ELSE DbQuery(m)
         IN IF DbErr(m1, env)
            THEN err_result(DbWrite(m1, env, m1), "RuleNotFound")
            ELSE Return(DbWrite(m1, env, delete_routing_rule(m1, rule_id)), "Ok")

\* fw_flush_table, lines 838-848: the table is flushed, the store is not touched
fw_flush_table(m, env) ==
    IF ~m.nft THEN err_result(m, "NotInitialized")
    ELSE IF ~flush_ok(m, env) THEN err_result(flush_table(m, env), "NftablesFailed")
    ELSE Return(flush_table(m, env), "Ok")

\* ---- presets.rs ------------------------------------------------------------
\* The name "kill-switch", one of the names a group can have.
KillSwitch == 1

\* The columns of a filter rule that the presets set: chain, rule_type,
\* proto, dport, in_iface, out_iface, state_match.
FwRule(chain, rule_type, proto, dport, in_iface, out_iface, state_match) ==
    [chain |-> chain, rule_type |-> rule_type, proto |-> proto, dport |-> dport,
     in_iface |-> in_iface, out_iface |-> out_iface, state_match |-> state_match]

\* A variant that inserts the wstunnel rule whatever the port is.
kill_switch_rules_always(wg_port, wstunnel_port, wg_iface) ==
    <<FwRule("output", "accept", "", 0, "", "lo", ""),
      FwRule("output", "accept", "", 0, "", "", "established,related"),
      FwRule("output", "accept", "udp", wg_port, "", "", ""),
      FwRule("output", "accept", "", 0, "", wg_iface, ""),
      FwRule("output", "accept", "udp", 67, "", "", ""),
      FwRule("output", "accept", "udp", 68, "", "", ""),
      FwRule("output", "accept", "tcp", wstunnel_port, "", "", ""),
      FwRule("output", "drop", "", 0, "", "", ""),
      FwRule("input", "accept", "", 0, "lo", "", ""),
      FwRule("input", "accept", "", 0, "", "", "established,related"),
      FwRule("input", "drop", "", 0, "", "", "")>>

\* preset_kill_switch, lines 189-240: the rules in the order of the
\* insert_firewall_rule calls, each at the next position.
kill_switch_rules(wg_port, wstunnel_port, wg_iface) ==
    <<FwRule("output", "accept", "", 0, "", "lo", ""),
      FwRule("output", "accept", "", 0, "", "", "established,related"),
      FwRule("output", "accept", "udp", wg_port, "", "", ""),
      FwRule("output", "accept", "", 0, "", wg_iface, ""),
      FwRule("output", "accept", "udp", 67, "", "", ""),
      FwRule("output", "accept", "udp", 68, "", "", "")>>
    \o (IF wstunnel_port > 0
        THEN <<FwRule("output", "accept", "tcp", wstunnel_port, "", "", "")>>
        ELSE <<>>)
    \o <<FwRule("output", "drop", "", 0, "", "", ""),
         FwRule("input", "accept", "", 0, "lo", "", ""),
         FwRule("input", "accept", "", 0, "", "", "established,related"),
         FwRule("input", "drop", "", 0, "", "", "")>>

\* The chains of the kill-switch rules in position order; the wstunnel rule
\* is there when wstunnel_port > 0.
kill_switch_chains(wstunnel) ==
    LET rules == kill_switch_rules(0, IF wstunnel THEN 1 ELSE 0, "")
    IN [p \in 1..Len(rules) |-> rules[p].chain]

\* db.insert_firewall_rule(gid, ...).map_err(|e| (ErrorCode::DbWrite, e))?
\* for each of the chains, at positions pos, pos + 1, ...
RECURSIVE preset_rules(_, _, _, _, _)
preset_rules(m, env, gid, chains, pos) ==
    IF chains = <<>> THEN Return(m, "Ok")
    ELSE IF DbErr(m, env) THEN Return(DbWrite(m, env, m), "DbWrite")
    ELSE preset_rules(DbWrite(m, env, insert_firewall_rule(m, gid, Head(chains), pos)),
                      env, gid, Tail(chains), pos + 1)

\* preset_kill_switch: create_rule_group("kill-switch", "kill_switch", 10, ..)?
\* (an INSERT and the SELECT of the new row), then the rules
preset_kill_switch(m, env, wstunnel) ==
    IF DbErr(m, env) \/ ~create_rule_group_ok(m, KillSwitch)
    THEN Return(DbWrite(m, env, m), "DbWrite")
    ELSE LET m1 == DbWrite(m, env, create_rule_group(m, KillSwitch, 10))
         IN IF DbErr(m1, env) THEN Return(DbQuery(m1), "DbWrite")
            ELSE preset_rules(DbQuery(m1), env, m.seqG + 1,
                              kill_switch_chains(wstunnel), 0)

\* lib.rs: the group as JSON ("Ok") or NULL ("Null")
fw_apply_preset_kill_switch(m, env, wstunnel) ==
    IF ~m.db THEN [Return(m, "Null") EXCEPT !.last_error = Message]
    ELSE LET m1 == preset_kill_switch(m, env, wstunnel)
         IN IF m1.ret # "Ok" THEN [Return(m1, "Null") EXCEPT !.last_error = Message]
    ELSE LET m2 == IF m1.status = "Started"
                   THEN apply_group_rules(Return(m1, ""), env, KillSwitch)
                   ELSE m1
         IN IF DbErr(m2, env) \/ get_rule_group(m2, KillSwitch) = 0
            THEN Return(DbQuery(m2), "Null")
            ELSE Return(DbQuery(m2), "Ok")

\* The columns of a routing rule that the presets set.
RtRule(rule_type, from_network, table_id, priority, destination, device, fwmark) ==
    [rule_type |-> rule_type, from_network |-> from_network, table_id |-> table_id,
     priority |-> priority, destination |-> destination, device |-> device,
     fwmark |-> fwmark]

\* A variant without the fwmark policy.
multihop_routing_unmarked(out_iface, fwmark, table_id, subnet) ==
    <<RtRule("table", "", table_id, 0, "", "", 0),
      RtRule("policy", subnet, table_id, 100, "", "", 0),
      RtRule("route", "", table_id, 0, "default", out_iface, 0)>>

\* preset_multihop, lines 110-133: the insert_routing_rule calls in order
multihop_routing(out_iface, fwmark, table_id, subnet) ==
    <<RtRule("table", "", table_id, 0, "", "", 0),
      RtRule("policy", subnet, table_id, 100, "", "", 0),
      RtRule("route", "", table_id, 0, "default", out_iface, 0)>>
    \o (IF fwmark > 0
        THEN <<RtRule("policy", "", table_id, 200, "", "", fwmark)>>
        ELSE <<>>)

\* preset_multihop, lines 135-147: the two forward rules, at positions 0 and 1
multihop_filter(in_iface, out_iface) ==
    <<FwRule("forward", "accept", "", 0, in_iface, out_iface, ""),
      FwRule("forward", "accept", "", 0, out_iface, in_iface, "established,related")>>

\* db.insert_routing_rule(gid, ...).map_err(|e| (ErrorCode::DbWrite, e))?
\* for each of the n routing rules
RECURSIVE preset_routing(_, _, _, _)
preset_routing(m, env, gid, n) ==
    IF n = 0 THEN Return(m, "Ok")
    ELSE IF DbErr(m, env) THEN Return(DbWrite(m, env, m), "DbWrite")
    ELSE preset_routing(DbWrite(m, env, insert_routing_rule(m, gid)), env, gid, n - 1)

\* preset_multihop: create_rule_group(name, "multihop", 80, ..)?, the routing
\* rules, then the filter rules
preset_multihop(m, env, name, fwmark) ==
    IF DbErr(m, env) \/ ~create_rule_group_ok(m, name)
    THEN Return(DbWrite(m, env, m), "DbWrite")
    ELSE LET m1 == DbWrite(m, env, create_rule_group(m, name, 80))
         IN IF DbErr(m1, env) THEN Return(DbQuery(m1), "DbWrite")
            ELSE LET m2 == preset_routing(DbQuery(m1), env, m.seqG + 1,
                                          Len(multihop_routing("", fwmark, 0, "")))
                 IN IF m2.ret # "Ok" THEN m2
                    ELSE preset_rules(Return(m2, ""), env, m.seqG + 1,
                                      [p \in 1..2 |-> multihop_filter("", "")[p].chain], 0)

\* lib.rs: the group as JSON ("Ok") or NULL ("Null")
fw_apply_preset_multihop(m, env, name, fwmark) ==
    IF ~m.db THEN [Return(m, "Null") EXCEPT !.last_error = Message]
    ELSE LET m1 == preset_multihop(m, env, name, fwmark)
         IN IF m1.ret # "Ok" THEN [Return(m1, "Null") EXCEPT !.last_error = Message]
    ELSE LET m2 == IF m1.status = "Started"
                   THEN apply_group_rules(Return(m1, ""), env, name)
                   ELSE m1
         IN IF DbErr(m2, env) \/ get_rule_group(m2, name) = 0
            THEN Return(DbQuery(m2), "Null")
            ELSE Return(DbQuery(m2), "Ok")

\* ---- verify.rs -------------------------------------------------------------
\* A comment of a rule-node. some: there is one; pre: it starts with
\* "phantom-rule-"; parses: the rest parses as an i64, num; canon: the rest
\* is the decimal numeral that formatting num gives ("05" and "+5" parse to 5
\* and are not canonical).
NoComment == [some |-> FALSE, pre |-> FALSE, parses |-> FALSE, num |-> 0, canon |-> FALSE]

OtherComment == [some |-> TRUE, pre |-> FALSE, parses |-> FALSE, num |-> 0, canon |-> FALSE]

JunkTag == [some |-> TRUE, pre |-> TRUE, parses |-> FALSE, num |-> 0, canon |-> FALSE]

PaddedTag(id) == [some |-> TRUE, pre |-> TRUE, parses |-> TRUE, num |-> id, canon |-> FALSE]

\* format!("phantom-rule-{}", rule.id)
comment_tag(id) == [some |-> TRUE, pre |-> TRUE, parses |-> TRUE, num |-> id, canon |-> TRUE]

\* SELECT * FROM firewall_rules WHERE applied = 1 ORDER BY group_id, position
\* (rows that tie are taken in id order)
AppliedLess(m, a, b) ==
    \/ m.fw[a].group_id < m.fw[b].group_id
    \/ /\ m.fw[a].group_id = m.fw[b].group_id
       /\ \/ m.fw[a].position < m.fw[b].position
          \/ m.fw[a].position = m.fw[b].position /\ a < b

RECURSIVE OrderApplied(_, _)
OrderApplied(m, S) ==
    IF S = {} THEN <<>>
    ELSE LET x == CHOOSE x \in S : \A y \in S \ {x} : AppliedLess(m, x, y)
         IN <<x>> \o OrderApplied(m, S \ {x})

\* A variant without the WHERE applied = 1.
applied_firewall_rules_all(m) == OrderApplied(m, DOMAIN m.fw)

applied_firewall_rules(m) == OrderApplied(m, {i \in DOMAIN m.fw : m.fw[i].applied})

\* parse_kernel_rules, lines 186-198: the comment at rule level, else the
\* last comment of the expr array
node_comment(node) ==
    IF node.comment.some THEN node.comment
    ELSE IF node.expr = <<>> THEN NoComment
    ELSE node.expr[Len(node.expr)]

\* parse_kernel_rules: (chain, handle, comment) of each rule-node of the dump
parse_kernel_rules(dump) ==
    [p \in 1..Len(dump) |->
        [chain |-> dump[p].chain, handle |-> dump[p].handle,
         comment |-> node_comment(dump[p])]]

\* A variant that lets a tag without a number pass as tracked.
is_tracked_lenient(applied, kr) ==
    IF kr.comment.some /\ kr.comment.pre /\ kr.comment.parses
    THEN \E p \in 1..Len(applied) : applied[p] = kr.comment.num
    ELSE TRUE

\* verify_rules, lines 104-114
is_tracked(applied, kr) ==
    IF kr.comment.some /\ kr.comment.pre
    THEN kr.comment.parses /\ \E p \in 1..Len(applied) : applied[p] = kr.comment.num
    ELSE TRUE

\* verify_rules over the rule-nodes of the dump
verify_rules(m, dump) ==
    LET db_applied == applied_firewall_rules(m)
        kernel_rules == parse_kernel_rules(dump)
        missing == SelectSeq(db_applied,
                       LAMBDA id : ~\E p \in 1..Len(kernel_rules) :
                                       kernel_rules[p].comment = comment_tag(id))
        extra == SelectSeq(kernel_rules,
                     LAMBDA kr : /\ ~is_tracked(db_applied, kr)
                                 /\ kr.comment.some /\ kr.comment.pre)
    IN [in_sync |-> missing = <<>> /\ extra = <<>>,
        db_applied |-> Len(db_applied), kernel_rules |-> Len(kernel_rules),
        missing_in_kernel |-> missing, extra_in_kernel |-> extra]

\* The rule-nodes "list table inet phantom" gives for the rules the bridge
\* installed, in handle order: each carries its tag as the rule's comment.
RECURSIVE OwnNodes(_)
OwnNodes(K) ==
    IF K = {} THEN <<>>
    ELSE LET r == CHOOSE r \in K : \A x \in K : r.handle <= x.handle
         IN <<[chain |-> r.chain, handle |-> r.handle,
               comment |-> comment_tag(r.id), expr |-> <<>>]>>
            \o OwnNodes(K \ {r})

\* The comments a rule-node put into the table by someone else can have:
\* none, some other text, a tag without a number, and for each row id and
\* one id no row has, its tag and a tag that parses to it.
MaxForeign == 1

ForeignComments ==
    {NoComment, OtherComment, JunkTag}
    \cup {comment_tag(n) : n \in 1..(MaxFw + 1)}
    \cup {PaddedTag(n) : n \in 1..(MaxFw + 1)}

\* Such rule-nodes, with the comment at rule level or in the expr array and
\* handles above those of the bridge's rules.
ForeignNodes(p) ==
    {[chain |-> "input", handle |-> 2 * (MaxKernelRules + MaxFw) + p,
      comment |-> c, expr |-> <<>>] : c \in ForeignComments}
    \cup {[chain |-> "input", handle |-> 2 * (MaxKernelRules + MaxFw) + p,
           comment |-> NoComment, expr |-> <<c>>] : c \in ForeignComments \ {NoComment}}

ForeignDumps ==
    UNION {{X \in [1..n -> UNION {ForeignNodes(p) : p \in 1..n}] :
                \A p \in 1..n : X[p] \in ForeignNodes(p)} : n \in 0..MaxForeign}

\* The dump verify_rules reads: the bridge's rules, then the foreign ones.
KernelDump(m, X) == OwnNodes(m.knft) \o X

\* ---- nft.rs: handle lookup ---------------------------------------------------
\* What find_rule_handle is asked for: family ("ip" for AF_INET, "ip6" for
\* AF_INET6), proto, dport, action, chain; the source is empty.
NoQuery == [family |-> "", proto |-> "", dport |-> 0, action |-> "", chain |-> ""]

\* A node of the "nftables" array has the key "rule" or another one
\* (metainfo, table, chain). Of a rule-node the lookup sees the handle and
\* in expr a match on the payload protocol, a match whose right side is the
\* port number, and the verdict; chain and family are keys of the rule.

\* find_rule_handle: `item.get("rule")?` ends the lookup with None (0) at a
\* node without that key; family and _chain are not compared.
RECURSIVE find_rule_handle(_, _)
find_rule_handle(dump, q) ==
    IF dump = <<>> THEN 0
    ELSE LET item == Head(dump)
         IN IF item.key # "rule" THEN 0
            ELSE IF /\ (q.proto = "" \/ item.proto = q.proto)
                    /\ (q.dport = 0 \/ item.dport = q.dport)
                    /\ item.action = q.action
                 THEN item.handle
                 ELSE find_rule_handle(Tail(dump), q)

\* ---- route.rs: the netlink adapter ------------------------------------------
\* Ok(()) of a routing operation, and its Err(String): the text names the
\* failure, errno is the OS error a kernel-reported error is translated from.
NlOk == [ok |-> TRUE, msg |-> "", errno |-> 0]

NlErr(msg, errno) == [ok |-> FALSE, msg |-> msg, errno |-> errno]

\* NetlinkSocket::open: socket() fails with EPERM or another errno, or
\* bind() fails, or the socket is there with seq 1.
open(io) ==
    IF io.sock # "ok"
    THEN [code |-> IF io.sock = "EPERM" THEN "PermissionDenied" ELSE "NetlinkFailed",
          seq |-> 0]
    ELSE IF ~io.bind THEN [code |-> "NetlinkFailed", seq |-> 0]
    ELSE [code |-> "Ok", seq |-> 1]

\* NetlinkSocket::next_seq
next_seq(sock) == [s |-> sock.seq, sock |-> [sock EXCEPT !.seq = @ + 1]]

\* The size of nlmsghdr, and the type of an error or acknowledgement message.
NlMsgHdrSize == 16
NLMSG_ERROR == 2

\* NetlinkSocket::send_and_ack: send, recv of len bytes, and the reply's
\* nlmsg_type and the i32 after its header.
send_and_ack(io) ==
    IF ~io.send THEN NlErr("netlink send failed", 0)
    ELSE IF io.len < 0 THEN NlErr("netlink recv failed", 0)
    ELSE IF /\ io.len >= NlMsgHdrSize
            /\ io.type = NLMSG_ERROR
            /\ io.len >= NlMsgHdrSize + 4
            /\ io.err # 0
         THEN NlErr("netlink error", 0 - io.err)
    ELSE NlOk

\* policy_add, policy_delete, route_add, route_delete: a socket of its own,
\* the sequence number, the lookups (table, network, interface), the
\* message with nlmsg_seq, send_and_ack. sends are the requests sent so far.
request(op, io, sends) ==
    LET sock == open(io)
    IN IF sock.code # "Ok"
       THEN [ret |-> NlErr(sock.code, 0), sends |-> sends]
       ELSE IF ~io.prep
            THEN [ret |-> NlErr("lookup failed", 0), sends |-> sends]
       ELSE [ret |-> send_and_ack(io),
             sends |-> IF io.send
                       THEN Append(sends, [op |-> op, seq |-> next_seq(sock).s])
                       ELSE sends]

\* ---- lib.rs: the state lock ------------------------------------------------
\* The threads of the caller.
Threads == 1..NumThreads

\* A thread that is in no call.
Idle == [op |-> "idle", k |-> 0, base |-> <<>>]

\* A variant that lets a thread in while another holds the lock.
lock_any(holder) == TRUE

\* STATE.lock() returns when no thread holds the lock (0: nobody).
lock_free(holder) == holder = 0

\* ---- lib.rs: the three locks -----------------------------------------------
\* STATE (line 28), LOG_CALLBACK (line 47) and LAST_ERR (line 587)
Locks == {"STATE", "LOG_CALLBACK", "LAST_ERR"}

\* A thread that is in no call of the bridge.
Outside == [op |-> "idle", at |-> 0, logs |-> 0]

Take(l) == [do |-> "lock", on |-> l]

Drop(l) == [do |-> "unlock", on |-> l]

\* emit_log, lines 49-57, n times over: LOG_CALLBACK is held for the call
\* of the callback and dropped when it returns.
LogCalls(n) ==
    [i \in 1..(2 * n) |-> IF i % 2 = 1 THEN Take("LOG_CALLBACK")
                          ELSE Drop("LOG_CALLBACK")]

\* A variant in which set_log_callback goes through with_state while it
\* holds LOG_CALLBACK.
LockPlan_reversed(op, logs) ==
    CASE op \in {"init", "start", "stop", "close"} ->
            <<Take("STATE"), [do |-> "run", on |-> ""]>> \o LogCalls(logs)
                \o <<Drop("STATE")>>
      [] op = "set_log_callback" ->
            <<Take("LOG_CALLBACK"), Take("STATE"), [do |-> "set", on |-> ""],
              Drop("STATE"), Drop("LOG_CALLBACK")>>
      [] op = "get_last_error" ->
            <<Take("STATE"), Take("LAST_ERR"), Drop("LAST_ERR"), Drop("STATE")>>

\* What a call does with the locks, in order. init, start, stop and close
\* run in with_state (line 69) and call emit_log logs times before the guard
\* of STATE is dropped. set_log_callback takes LOG_CALLBACK alone (lines
\* 558-568); get_last_error takes LAST_ERR inside with_state (lines 588-596).
LockPlan(op, logs) ==
    CASE op \in {"init", "start", "stop", "close"} ->
            <<Take("STATE"), [do |-> "run", on |-> ""]>> \o LogCalls(logs)
                \o <<Drop("STATE")>>
      [] op = "set_log_callback" ->
            <<Take("LOG_CALLBACK"), [do |-> "set", on |-> ""], Drop("LOG_CALLBACK")>>
      [] op = "get_last_error" ->
            <<Take("STATE"), Take("LAST_ERR"), Drop("LAST_ERR"), Drop("STATE")>>

\* ---- the environment of one call -----------------------------------------
\* The store operations of a call that return Err: at most k of the n
\* operations the call performs (k = 0: the store is reliable).
Faulty(n, k) == {F \in SUBSET (1..n) : Cardinality(F) <= k}

WithFaults(env, F) == [env EXCEPT !.dbfail = F]

\* F is the set of sets of kernel operations that may fail together.
\* kf says whether kernel operations may fail at all.
Envs(kf, F) ==
    [kfail : IF kf THEN F ELSE {{}}, dbfail : {{}}, dies : {FALSE}, crash : {0}]

MaxEffects == 2 * (MaxFw + MaxRt) + 2

CrashEnvs == [kfail : {{}}, dbfail : {{}}, dies : {TRUE}, crash : 0..MaxEffects]

\* The kernel operations a call issues, by entry point; a call that is
\* rejected before it reaches the kernel has none.
EnabledIds == {g \in DOMAIN groups : groups[g].enabled}

AddKeys(G) ==
    {<<"fw_add", i>> : i \in {j \in DOMAIN fw : fw[j].group_id \in G}}
    \cup {<<"rt_add", i>> : i \in {j \in DOMAIN rt : rt[j].group_id \in G}}

DelKeys(G) ==
    {<<"fw_del", fw[i].nft_handle>> :
        i \in {j \in DOMAIN fw : fw[j].group_id \in G /\ fw[j].applied}}
    \cup {<<"rt_del", i>> : i \in {j \in DOMAIN rt : rt[j].group_id \in G /\ rt[j].applied}}

\* start: a failed flush ends the call; otherwise any installs may fail.
StartKernel == {{<<"flush", 0>>}} \cup SUBSET AddKeys(EnabledIds)

StartFaults == IF status \in {"Initialized", "Stopped"} THEN StartKernel ELSE {{}}

StopKernel ==
    SUBSET ({<<"flush", 0>>} \cup {<<"rt_del", i>> : i \in {j \in DOMAIN rt : rt[j].applied}})

StopFaults == IF status = "Started" THEN StopKernel ELSE {{}}

InitFaults == {x \cup y : x \in {{}, {<<"ctx_new", 0>>}, {<<"ensure", 0>>}}, y \in StopFaults}

EnableFaults(name) ==
    IF status = "Started" THEN SUBSET AddKeys({get_rule_group(Cur, name)}) ELSE {{}}

DisableFaults(name) ==
    IF status = "Started" THEN SUBSET DelKeys({get_rule_group(Cur, name)}) ELSE {{}}

FwAddFaults == IF status = "Started" THEN SUBSET {<<"fw_add", seqFw + 1>>} ELSE {{}}

FwRemoveFaults(id) ==
    IF id \in DOMAIN fw /\ nft
    THEN SUBSET {<<"fw_del", fw[i].nft_handle>> : i \in {j \in {id} : fw[j].applied}}
    ELSE {{}}

RtAddFaults == IF status = "Started" THEN SUBSET {<<"rt_add", seqRt + 1>>} ELSE {{}}

RtRemoveFaults(id) ==
    IF id \in DOMAIN rt THEN SUBSET {<<"rt_del", i>> : i \in {j \in {id} : rt[j].applied}}
    ELSE {{}}

\* What a dead process leaves: its memory is gone, the store file and the
\* kernel keep what they had.
Died(m) ==
    [m EXCEPT !.status = "Uninitialized", !.db = FALSE, !.nft = FALSE,
              !.last_error = "", !.ret = ""]

\* ---- the state machine -----------------------------------------------------
\* FirewallState::new() (state.rs:53-60), no store file yet, an untouched kernel.
Init ==
    /\ status = "Uninitialized" /\ db = FALSE /\ nft = FALSE /\ last_error = ""
    /\ cfg = "absent" /\ flags = NoFlags
    /\ groups = NoRows /\ fw = NoRows /\ rt = NoRows
    /\ seqG = 0 /\ seqFw = 0 /\ seqRt = 0
    /\ ktable = FALSE /\ kchains = {} /\ knft = {} /\ krt = {}
    /\ lock = 0 /\ run = [t \in Threads |-> Idle] /\ serial = Cur
    /\ sent = <<>> /\ nlret = NlOk
    /\ lookup = [dump |-> <<>>, query |-> NoQuery, found |-> 0]
    /\ held = [l \in Locks |-> 0] /\ pc = [t \in Threads |-> Outside]
    /\ log_cb = FALSE

InitCall(kf, k) ==
    \E path \in {"", "db"} : \E env \in Envs(kf, InitFaults) :
    \E F \in Faulty(firewall_bridge_init(Cur, env, path).n, k) :
        Commit(firewall_bridge_init(Cur, WithFaults(env, F), path))

StartCall(kf, k) ==
    \E env \in Envs(kf, StartFaults) :
    \E F \in Faulty(firewall_bridge_start(Cur, env).n, k) :
        Commit(firewall_bridge_start(Cur, WithFaults(env, F)))

StopCall(kf, k) ==
    \E env \in Envs(kf, StopFaults) :
    \E F \in Faulty(firewall_bridge_stop(Cur, env).n, k) :
        Commit(firewall_bridge_stop(Cur, WithFaults(env, F)))

CloseCall(kf, k) ==
    \E env \in Envs(kf, StopFaults) :
    \E F \in Faulty(firewall_bridge_close(Cur, env).n, k) :
        Commit(firewall_bridge_close(Cur, WithFaults(env, F)))

CreateGroup(kf, k) ==
    /\ seqG < MaxGroups
    /\ \E name \in Names \cup {NoName} : \E priority \in Priorities :
       \E env \in Envs(kf, {{}}) :
       \E F \in Faulty(fw_create_rule_group(Cur, env, name, priority).n, k) :
           Commit(fw_create_rule_group(Cur, WithFaults(env, F), name, priority))

DeleteGroup(kf, k) ==
    \E name \in Names : \E env \in Envs(kf, DisableFaults(name)) :
    \E F \in Faulty(fw_delete_rule_group(Cur, env, name).n, k) :
        Commit(fw_delete_rule_group(Cur, WithFaults(env, F), name))

EnableGroup(kf, k) ==
    \E name \in Names : \E env \in Envs(kf, EnableFaults(name)) :
    \E F \in Faulty(fw_enable_rule_group(Cur, env, name).n, k) :
        Commit(fw_enable_rule_group(Cur, WithFaults(env, F), name))

DisableGroup(kf, k) ==
    \E name \in Names : \E env \in Envs(kf, DisableFaults(name)) :
    \E F \in Faulty(fw_disable_rule_group(Cur, env, name).n, k) :
        Commit(fw_disable_rule_group(Cur, WithFaults(env, F), name))

FwAddRule(kf, k) ==
    /\ seqFw < MaxFw /\ seqFw + seqRt < MaxRules
    /\ \E name \in Names : \E chain \in Chains : \E env \in Envs(kf, FwAddFaults) :
       \E F \in Faulty(fw_add_rule(Cur, env, name, chain).n, k) :
           Commit(fw_add_rule(Cur, WithFaults(env, F), name, chain))

FwRemoveRule(kf, k) ==
    \E id \in 1..MaxFw : \E env \in Envs(kf, FwRemoveFaults(id)) :
    \E F \in Faulty(fw_remove_rule(Cur, env, id).n, k) :
        Commit(fw_remove_rule(Cur, WithFaults(env, F), id))

RtAddRule(kf, k) ==
    /\ seqRt < MaxRt /\ seqFw + seqRt < MaxRules
    /\ \E name \in Names : \E env \in Envs(kf, RtAddFaults) :
       \E F \in Faulty(rt_add_rule(Cur, env, name).n, k) :
           Commit(rt_add_rule(Cur, WithFaults(env, F), name))

RtRemoveRule(kf, k) ==
    \E id \in 1..MaxRt : \E env \in Envs(kf, RtRemoveFaults(id)) :
    \E F \in Faulty(rt_remove_rule(Cur, env, id).n, k) :
        Commit(rt_remove_rule(Cur, WithFaults(env, F), id))

\* The process dies between two calls.
Crash ==
    /\ status # "Uninitialized"
    /\ Commit(Died(Cur))

\* The process dies inside start(), after env.crash of its effects.
CrashInStart ==
    /\ status \in {"Initialized", "Stopped"}
    /\ \E env \in CrashEnvs : Commit(Died(firewall_bridge_start(Cur, env)))

Lifecycle(kf, k) ==
    InitCall(kf, k) \/ StartCall(kf, k) \/ StopCall(kf, k) \/ CloseCall(kf, k)

Populate(kf, k) ==
    \/ CreateGroup(kf, k) \/ EnableGroup(kf, k) \/ DisableGroup(kf, k)
    \/ FwAddRule(kf, k) \/ RtAddRule(kf, k)

Edit(kf, k) == DeleteGroup(kf, k) \/ FwRemoveRule(kf, k) \/ RtRemoveRule(kf, k)

\* fw_add_rule and rt_add_rule over a kernel that may fail, while fewer than
\* MaxFaultyRules rules were added.
FwAddFaulty == seqFw + seqRt < MaxFaultyRules /\ FwAddRule(TRUE, 0)

RtAddFaulty == seqFw + seqRt < MaxFaultyRules /\ RtAddRule(TRUE, 0)

\* The lifecycle over stores that the API filled; the store never fails,
\* kernel operations may, and the process may die.
Next ==
    \/ Lifecycle(TRUE, 0)
    \/ CreateGroup(TRUE, 0) \/ EnableGroup(TRUE, 0) \/ DisableGroup(TRUE, 0)
    \/ FwAddFaulty \/ RtAddFaulty
    \/ Crash \/ CrashInStart

Spec == Init /\ [][Next]_vars

\* A kernel that never fails and a process that never dies, with the store
\* operations of start and stop failing instead.
NextDb ==
    \/ InitCall(FALSE, 0) \/ CloseCall(FALSE, 0)
    \/ StartCall(FALSE, MaxDbFaults) \/ StopCall(FALSE, MaxDbFaults)
    \/ CreateGroup(FALSE, 0) \/ FwAddRule(FALSE, 0)
    \/ RtAddRule(FALSE, 0)

SpecDb == Init /\ [][NextDb]_vars

\* Every call of the group and rule API, deletions and removals included,
\* over a store and a kernel that do not fail and a process that does not die.
NextEdit == Lifecycle(FALSE, 0) \/ Populate(FALSE, 0) \/ Edit(FALSE, 0)

SpecEdit == Init /\ [][NextEdit]_vars

\* The column names a caller may pass to set_config_flag: the three flags,
\* the other columns of the config row, and a name that is no column.
Columns == Flags \cup {"state", "updated_at", "id", "bogus"}

\* db.set_config_flag(column, value) on the open store.
SetConfigFlag ==
    /\ db
    /\ \E column \in Columns : \E value \in BOOLEAN :
        Commit(set_config_flag(Cur, column, value))

\* The lifecycle over a store with a group and a rule, and the config flags
\* set in between; nothing fails.
NextCfg ==
    \/ SetConfigFlag \/ Lifecycle(FALSE, 0)
    \/ CreateGroup(FALSE, 0) \/ FwAddRule(FALSE, 0)

SpecCfg == Init /\ [][NextCfg]_vars

\* The entry points the threads call, each through with_state.
ThreadOps == {"init", "start", "stop", "create", "fw_add", "rt_add"}

NoFaults == [kfail |-> {}, dbfail |-> {}, dies |-> FALSE, crash |-> 0]

\* The closure of a call has performed k of its effects.
After(k) == [kfail |-> {}, dbfail |-> {}, dies |-> TRUE, crash |-> k]

Apply(op, m, env) ==
    CASE op = "init" -> firewall_bridge_init(m, env, "db")
      [] op = "start" -> firewall_bridge_start(m, env)
      [] op = "stop" -> firewall_bridge_stop(m, env)
      [] op = "create" -> fw_create_rule_group(m, env, 1, 1)
      [] op = "fw_add" -> fw_add_rule(m, env, 1, "input")
      [] op = "rt_add" -> rt_add_rule(m, env, 1)

\* A machine record as a new call finds it.
Clean(m) == [m EXCEPT !.n = 0, !.e = 0, !.trace = <<>>, !.ret = ""]

\* The state while the closure that started on base has performed k of its
\* effects: the store and the kernel have them, the fields of FirewallState
\* are assigned when the closure ends.
InFlight(op, base, k) ==
    IF k = 0 THEN base
    ELSE [Apply(op, base, After(k)) EXCEPT
            !.status = base.status, !.db = base.db, !.nft = base.nft,
            !.last_error = base.last_error]

\* with_state, line 69: thread t takes the lock for a call; the closure
\* will work on the state as it is now.
Acquire(t) ==
    /\ run[t].op = "idle" /\ lock_free(lock)
    /\ \E op \in ThreadOps :
        /\ op = "create" => seqG < MaxGroups
        /\ op = "fw_add" => seqFw < MaxFw /\ seqFw + seqRt < MaxRules
        /\ op = "rt_add" => seqRt < MaxRt /\ seqFw + seqRt < MaxRules
        /\ run' = [run EXCEPT ![t] = [op |-> op, k |-> 0, base |-> Cur]]
        /\ serial' = Apply(op, Clean(serial), NoFaults)
    /\ lock' = t
    /\ UNCHANGED <<progVars, storeVars, kernelVars, nlVars, lockVars>>

\* with_state, line 70: the closure of the holder performs its next effect.
Step(t) ==
    /\ lock = t /\ run[t].op # "idle"
    /\ run[t].k + 1 < Apply(run[t].op, run[t].base, NoFaults).e
    /\ Write(InFlight(run[t].op, run[t].base, run[t].k + 1))
    /\ run' = [run EXCEPT ![t].k = @ + 1]
    /\ UNCHANGED <<lock, serial, lockVars>>

\* with_state, lines 70-71: the closure ends and the guard is dropped.
Release(t) ==
    /\ lock = t /\ run[t].op # "idle"
    /\ run[t].k + 1 >= Apply(run[t].op, run[t].base, NoFaults).e
    /\ Write(Apply(run[t].op, run[t].base, NoFaults))
    /\ run' = [run EXCEPT ![t] = Idle]
    /\ lock' = 0
    /\ UNCHANGED <<serial, lockVars>>

\* Several threads call the API; nothing fails.
NextThreads == \E t \in Threads : Acquire(t) \/ Step(t) \/ Release(t)

SpecThreads == Init /\ [][NextThreads]_vars

\* What the system calls of one routing operation do: socket(), bind(), the
\* lookups, send(), the length recv() returns, and the type and the code
\* of the reply.
NlIo ==
    [sock : {"ok", "EPERM", "EMFILE"}, bind : BOOLEAN, prep : BOOLEAN,
     send : BOOLEAN, len : {-1, 0, 8, 16, 19, 20, 36},
     type : {NLMSG_ERROR, 3, 24}, err : {0, -1, -17}]

NlOps == {"policy_add", "policy_delete", "route_add", "route_delete"}

\* One routing operation of the adapter.
Request ==
    /\ Len(sent) < MaxSends
    /\ \E op \in NlOps : \E io \in NlIo :
        /\ sent' = request(op, io, sent).sends
        /\ nlret' = request(op, io, sent).ret
    /\ UNCHANGED <<progVars, storeVars, kernelVars, threadVars, lookup, lockVars>>

\* The routing operations of one process.
NextNetlink == Request

SpecNetlink == Init /\ [][NextNetlink]_vars

\* The nodes a dump can have at place p: a metainfo or chain entry, or a
\* rule with handle p.
DumpNodes(p) ==
    {[key |-> k, handle |-> 0, chain |-> "", family |-> "", proto |-> "",
      dport |-> 0, action |-> ""] : k \in {"metainfo", "chain"}}
    \cup [key : {"rule"}, handle : {p}, chain : {"input", "forward"},
          family : {"ip", "ip6"}, proto : {"tcp", "udp"}, dport : {22, 443},
          action : {"accept", "drop"}]

Queries ==
    [family : {"ip", "ip6"}, proto : {"", "tcp"}, dport : {0, 22},
     action : {"accept", "drop"}, chain : {"input"}]

\* The listing of the chain gains a node; a handle found before is of the
\* listing before.
Listed ==
    /\ Len(lookup.dump) < MaxNodes
    /\ \E n \in DumpNodes(Len(lookup.dump) + 1) :
        lookup' = [dump |-> Append(lookup.dump, n), query |-> NoQuery, found |-> 0]
    /\ UNCHANGED <<progVars, storeVars, kernelVars, threadVars, sent, nlret, lockVars>>

\* del_input_rule, lines 195-196: the dump is listed and the handle looked up.
Lookup ==
    /\ \E q \in Queries :
        lookup' = [lookup EXCEPT !.query = q,
                                 !.found = find_rule_handle(lookup.dump, q)]
    /\ UNCHANGED <<progVars, storeVars, kernelVars, threadVars, sent, nlret, lockVars>>

NextLookup == Listed \/ Lookup

SpecLookup == Init /\ [][NextLookup]_vars

\* Filter rules added to and removed from the groups of an initialized
\* bridge, up to MaxAdds additions; nothing fails.
AddInOrder ==
    /\ seqFw < MaxAdds
    /\ \E name \in Names : Commit(fw_add_rule(Cur, NoFaults, name, "input"))

RemoveInOrder ==
    \E id \in 1..MaxAdds : Commit(fw_remove_rule(Cur, NoFaults, id))

NextOrder ==
    \/ InitCall(FALSE, 0) \/ CreateGroup(FALSE, 0) \/ AddInOrder \/ RemoveInOrder

SpecOrder == Init /\ [][NextOrder]_vars

\* The entry points that take a lock beside or instead of STATE.
LockOps == {"init", "start", "stop", "close", "set_log_callback", "get_last_error"}

\* The closure an entry point hands to with_state.
Closure(op, m) ==
    CASE op = "init" -> firewall_bridge_init(m, NoFaults, "db")
      [] op = "start" -> firewall_bridge_start(m, NoFaults)
      [] op = "stop" -> firewall_bridge_stop(m, NoFaults)
      [] op = "close" -> firewall_bridge_close(m, NoFaults)

\* The calls of emit_log in the closure: one at the end of an init, start or
\* stop that succeeds (state.rs:94, 143, 172), and one in the stop that
\* close_internal runs on a started bridge (state.rs:69, 182-184).
Logs(op, m) ==
    (IF op \in {"init", "close"} /\ m.status = "Started"
        /\ stop(m, NoFaults).ret = "Ok" THEN 1 ELSE 0)
    + (IF op \in {"init", "start", "stop"} /\ Closure(op, m).ret = "Ok"
       THEN 1 ELSE 0)

\* The step thread t is at.
At(t) == LockPlan(pc[t].op, pc[t].logs)[pc[t].at]

\* Thread t after its step, with logs calls of emit_log in its closure.
Moved(t, logs) ==
    IF pc[t].at = Len(LockPlan(pc[t].op, logs)) THEN [pc EXCEPT ![t] = Outside]
    ELSE [pc EXCEPT ![t].at = @ + 1, ![t].logs = logs]

\* A thread enters an entry point.
Enter(t) ==
    /\ pc[t].op = "idle"
    /\ \E op \in LockOps : pc' = [pc EXCEPT ![t] = [op |-> op, at |-> 1, logs |-> 0]]
    /\ UNCHANGED <<progVars, storeVars, kernelVars, threadVars, nlVars, held, log_cb>>

\* Mutex::lock: the thread waits until the lock is free.
TakeLock(t) ==
    /\ pc[t].op # "idle" /\ At(t).do = "lock"
    /\ held[At(t).on] = 0
    /\ held' = [held EXCEPT ![At(t).on] = t]
    /\ pc' = Moved(t, pc[t].logs)
    /\ UNCHANGED <<progVars, storeVars, kernelVars, threadVars, nlVars, log_cb>>

\* The guard is dropped.
DropLock(t) ==
    /\ pc[t].op # "idle" /\ At(t).do = "unlock"
    /\ held' = [held EXCEPT ![At(t).on] = 0]
    /\ pc' = Moved(t, pc[t].logs)
    /\ UNCHANGED <<progVars, storeVars, kernelVars, threadVars, nlVars, log_cb>>

\* The closure of init, start, stop or close; its calls of emit_log follow.
RunClosure(t) ==
    /\ pc[t].op # "idle" /\ At(t).do = "run"
    /\ Write(Closure(pc[t].op, Cur))
    /\ pc' = Moved(t, Logs(pc[t].op, Cur))
    /\ UNCHANGED <<threadVars, held, log_cb>>

\* set_log_callback, lines 559-566: a callback or None is stored.
SetCallback(t) ==
    /\ pc[t].op # "idle" /\ At(t).do = "set"
    /\ \E cb \in BOOLEAN : log_cb' = cb
    /\ pc' = Moved(t, pc[t].logs)
    /\ UNCHANGED <<progVars, storeVars, kernelVars, threadVars, nlVars, held>>

NextLocks ==
    \E t \in Threads :
        Enter(t) \/ TakeLock(t) \/ DropLock(t) \/ RunClosure(t) \/ SetCallback(t)

SpecLocks == Init /\ [][NextLocks]_vars

\* Someone else flushes the private table.
ExternalFlush ==
    /\ ktable /\ knft # {}
    /\ knft' = {}
    /\ UNCHANGED <<progVars, storeVars, ktable, kchains, krt, threadVars, nlVars,
                   lockVars>>

\* The lifecycle over a store with groups and filter rules, with process
\* death and external flushes, which leave the store and the kernel apart.
NextVerify ==
    \/ Lifecycle(FALSE, 0) \/ CreateGroup(FALSE, 0) \/ FwAddRule(FALSE, 0)
    \/ DisableGroup(FALSE, 0) \/ Crash \/ ExternalFlush

SpecVerify == Init /\ [][NextVerify]_vars

\* ---- properties ------------------------------------------------------------
\* What a call's outcome r left of the state it started from.
AllCleared(r) ==
    /\ \A i \in DOMAIN r.fw : ~r.fw[i].applied /\ r.fw[i].nft_handle = 0
    /\ \A j \in DOMAIN r.rt : ~r.rt[j].applied

StoreOf(r) == <<r.cfg, r.flags, r.groups, r.fw, r.rt, r.seqG, r.seqFw, r.seqRt>>

KernelOf(r) == <<r.ktable, r.kchains, r.knft, r.krt>>

Untouched(r) == StoreOf(r) = StoreOf(Cur) /\ KernelOf(r) = KernelOf(Cur)

\* C1: once init has opened the store, whenever the status is not Started no
\* filter-rule row and no routing-rule row has applied = true, whatever calls
\* were made and whatever they returned.
C1_AppliedOnlyWhileStarted ==
    (db /\ status # "Started") =>
        /\ \A i \in DOMAIN fw : ~fw[i].applied
        /\ \A j \in DOMAIN rt : ~rt[j].applied

\* C2: every stop() that returns Ok and every init() that returns Ok leaves
\* all filter-rule rows at applied = false, nft_handle = 0 and all
\* routing-rule rows at applied = false.
C2_ClearedAfterStopAndInit ==
    /\ \A env \in Envs(TRUE, StopFaults) :
       \A F \in Faulty(firewall_bridge_stop(Cur, env).n, MaxDbFaults) :
           LET r == firewall_bridge_stop(Cur, WithFaults(env, F))
           IN r.ret = "Ok" => AllCleared(r)
    /\ \A env \in Envs(TRUE, InitFaults) :
       \A F \in Faulty(firewall_bridge_init(Cur, env, "db").n, MaxDbFaults) :
           LET r == firewall_bridge_init(Cur, WithFaults(env, F), "db")
           IN r.ret = "Ok" => AllCleared(r)

\* C3: in every reachable state a filter-rule row has applied = true exactly
\* when its nft_handle is not 0.
C3_AppliedIffHandle ==
    \A i \in DOMAIN fw : fw[i].applied <=> (fw[i].nft_handle # 0)

\* A started bridge with one installed row next to one that is not.
C3_Witness ==
    /\ status = "Started"
    /\ \E i \in DOMAIN fw : fw[i].applied /\ fw[i].nft_handle # 0
    /\ \E i \in DOMAIN fw : ~fw[i].applied /\ fw[i].nft_handle = 0

\* C4: start() passes its guard only from Initialized or Stopped; from
\* Started it returns AlreadyStarted, from any other status (Uninitialized,
\* Error) InvalidState, and a rejected start leaves the status, the store and
\* the kernel as they were.
C4_StartGuard ==
    \A env \in Envs(TRUE, StartKernel) :
        LET r == firewall_bridge_start(Cur, env)
            e == firewall_bridge_start([Cur EXCEPT !.status = "Error"], env)
        IN /\ status = "Started" => r.ret = "AlreadyStarted"
           /\ status = "Uninitialized" => r.ret = "InvalidState"
           /\ e.ret = "InvalidState" /\ e.status = "Error" /\ Untouched(e)
           /\ status \in {"Initialized", "Stopped"} =>
                  r.ret \notin {"AlreadyStarted", "InvalidState"}
           /\ r.ret \in {"AlreadyStarted", "InvalidState"} =>
                  r.status = status /\ Untouched(r)

\* A started bridge with installed rules, where a second start is refused.
C4_Witness ==
    /\ status = "Started" /\ knft # {} /\ krt # {}
    /\ \E i \in DOMAIN fw : fw[i].applied
    /\ \A env \in Envs(TRUE, StartKernel) :
           firewall_bridge_start(Cur, env).ret = "AlreadyStarted"

\* C5: stop() passes its guard only from Started; from every other status it
\* returns NotStarted and leaves the status, the store and the kernel as they
\* were.
C5_StopGuard ==
    \A env \in Envs(TRUE, StopKernel) :
        LET r == firewall_bridge_stop(Cur, env)
            e == firewall_bridge_stop([Cur EXCEPT !.status = "Error"], env)
        IN /\ status # "Started" =>
                  r.ret = "NotStarted" /\ r.status = status /\ Untouched(r)
           /\ e.ret = "NotStarted" /\ e.status = "Error" /\ Untouched(e)
           /\ status = "Started" => r.ret # "NotStarted"

\* A stopped bridge whose kernel still holds rules a stop could remove.
C5_Witness ==
    /\ status = "Stopped" /\ knft # {} /\ krt # {}
    /\ \A env \in Envs(TRUE, StopKernel) :
           firewall_bridge_stop(Cur, env).ret = "NotStarted"

\* The kernel operations of a trace t, as positions.
Installs(t) == {p \in 1..Len(t) : t[p].k \in {"fw_add", "rt_add"}}

Count(t, k, id) == Cardinality({p \in 1..Len(t) : t[p].k = k /\ t[p].id = id})

GroupEnabled(g) == g \in DOMAIN groups /\ groups[g].enabled

\* What an accepted start must have done, read off its outcome r: Ok and
\* Started, one install offered for every rule of an enabled group, a row
\* applied (with the handle the kernel returned) exactly when its install
\* succeeded, and a message left if one failed.
StartPost(r) ==
    /\ r.ret = "Ok" /\ r.status = "Started"
    /\ \A i \in DOMAIN fw : GroupEnabled(fw[i].group_id) => Count(r.trace, "fw_add", i) = 1
    /\ \A j \in DOMAIN rt : GroupEnabled(rt[j].group_id) => Count(r.trace, "rt_add", j) = 1
    /\ \A i \in DOMAIN fw :
        IF \E p \in 1..Len(r.trace) :
               r.trace[p].k = "fw_add" /\ r.trace[p].id = i /\ r.trace[p].ok
        THEN /\ r.fw[i].applied /\ r.fw[i].nft_handle # 0
             /\ \E p \in 1..Len(r.trace) :
                    /\ r.trace[p].k = "fw_add" /\ r.trace[p].id = i
                    /\ r.trace[p].h = r.fw[i].nft_handle
        ELSE ~r.fw[i].applied /\ r.fw[i].nft_handle = 0
    /\ \A j \in DOMAIN rt :
        r.rt[j].applied <=>
            \E p \in 1..Len(r.trace) :
                r.trace[p].k = "rt_add" /\ r.trace[p].id = j /\ r.trace[p].ok
    /\ (\E p \in Installs(r.trace) : ~r.trace[p].ok) => r.last_error # ""

RankOf(e) ==
    LET g == IF e.k = "fw_add" THEN fw[e.id].group_id ELSE rt[e.id].group_id
    IN <<groups[g].priority, groups[g].name,
         IF e.k = "fw_add" THEN 0 ELSE 1,
         IF e.k = "fw_add" THEN fw[e.id].position ELSE 0,
         e.id>>

\* Lexicographic order on tuples of numbers of one length.
LexLess(a, b) ==
    \E i \in 1..Len(a) : a[i] < b[i] /\ \A j \in 1..(i - 1) : a[j] = b[j]

\* C7: within one start() the flush of the private table is the first kernel
\* operation and every rule install follows it; enabled groups are taken in
\* ascending (priority, name); within a group the filter rules are offered in
\* ascending (position, id) before any routing rule, and the routing rules in
\* ascending id.
C7_StartOrder ==
    status \in {"Initialized", "Stopped"} =>
        \A env \in Envs(TRUE, StartKernel) :
            LET t == firewall_bridge_start(Cur, env).trace
            IN /\ Len(t) >= 1 /\ t[1].k = "flush"
               /\ \A p \in 2..Len(t) : t[p].k \in {"fw_add", "rt_add"}
               /\ \A p, q \in 2..Len(t) : p < q => LexLess(RankOf(t[p]), RankOf(t[q]))

\* Two enabled groups whose priority order is the reverse of their name
\* order, each with a rule, one of them with a filter and a routing rule,
\* about to be started.
C7_Witness ==
    /\ status \in {"Initialized", "Stopped"}
    /\ \E g, h \in DOMAIN groups :
        /\ groups[g].enabled /\ groups[h].enabled
        /\ groups[g].priority < groups[h].priority /\ groups[g].name > groups[h].name
        /\ \E i \in DOMAIN fw : fw[i].group_id = g
        /\ \E i \in DOMAIN fw \cup DOMAIN rt :
               \/ i \in DOMAIN fw /\ fw[i].group_id = h
               \/ i \in DOMAIN rt /\ rt[i].group_id = h
    /\ \E g \in DOMAIN groups :
        /\ \E i \in DOMAIN fw : fw[i].group_id = g
        /\ \E j \in DOMAIN rt : rt[j].group_id = g
    /\ \E env \in Envs(TRUE, StartKernel) :
        LET r == firewall_bridge_start(Cur, env)
        IN r.ret = "Ok" /\ Len(r.trace) = 4

\* C8: start() offers to the kernel no filter or routing rule of a group with
\* enabled = false, and leaves the rows of such groups as they were, unapplied
\* and with handle 0.
C8_DisabledUntouched ==
    status \in {"Initialized", "Stopped"} =>
        \A env \in Envs(TRUE, StartKernel) :
            LET r == firewall_bridge_start(Cur, env)
            IN /\ \A p \in Installs(r.trace) :
                    /\ r.trace[p].k = "fw_add" => GroupEnabled(fw[r.trace[p].id].group_id)
                    /\ r.trace[p].k = "rt_add" => GroupEnabled(rt[r.trace[p].id].group_id)
               /\ \A i \in DOMAIN fw :
                    ~GroupEnabled(fw[i].group_id) =>
                        r.fw[i] = fw[i] /\ ~r.fw[i].applied /\ r.fw[i].nft_handle = 0
               /\ \A j \in DOMAIN rt :
                    ~GroupEnabled(rt[j].group_id) => r.rt[j] = rt[j] /\ ~r.rt[j].applied

\* A disabled group with a filter rule beside an enabled group with a rule,
\* and a start that returns Ok.
C8_Witness ==
    /\ status \in {"Initialized", "Stopped"}
    /\ \E i \in DOMAIN fw : ~GroupEnabled(fw[i].group_id)
    /\ \E i \in DOMAIN fw : GroupEnabled(fw[i].group_id)
    /\ \E env \in Envs(TRUE, StartKernel) :
        LET r == firewall_bridge_start(Cur, env)
        IN r.ret = "Ok" /\ \E i \in DOMAIN fw : r.fw[i].applied

\* C9: stop() from Started returns Ok, moves to Stopped and leaves every
\* applied flag cleared whichever of its kernel operations (the flush, each
\* routing removal) fail, and it issues one removal for every routing row
\* that was applied.
C9_StopSwallowsKernelFailures ==
    status = "Started" =>
        \A env \in Envs(TRUE, StopKernel) :
            LET r == firewall_bridge_stop(Cur, env)
            IN /\ r.ret = "Ok" /\ r.status = "Stopped"
               /\ AllCleared(r)
               /\ Count(r.trace, "flush", 0) = 1
               /\ \A j \in DOMAIN rt :
                    Count(r.trace, "rt_del", j) = IF rt[j].applied THEN 1 ELSE 0

\* Stopped with a filter rule and a route left behind in the kernel by a
\* stop whose flush and removal failed, and nothing applied in the store.
C9_Witness ==
    /\ status = "Stopped" /\ knft # {} /\ krt # {}
    /\ \A i \in DOMAIN fw : ~fw[i].applied
    /\ \A j \in DOMAIN rt : ~rt[j].applied

\* Positions of a trace t holding one of the kinds K.
Places(t, K) == {p \in 1..Len(t) : t[p].k \in K}

\* C10: close() returns Ok from every lifecycle state and leaves the status
\* Uninitialized with the store handle and the filter context released; from
\* Started the flush, the routing removals and the clearing of the applied
\* flags come before the release of the handles.
C10_CloseReleases ==
    \A env \in Envs(TRUE, StopKernel) :
        LET r == firewall_bridge_close(Cur, env)
        IN /\ r.ret = "Ok" /\ r.status = "Uninitialized" /\ ~r.db /\ ~r.nft
           /\ nft => Count(r.trace, "nft_free", 0) = 1
           /\ db => Count(r.trace, "db_close", 0) = 1
           /\ status = "Started" =>
                /\ AllCleared(r) /\ r.cfg = "stopped"
                /\ Count(r.trace, "flush", 0) = 1
                /\ \A j \in DOMAIN rt : rt[j].applied => Count(r.trace, "rt_del", j) = 1
                /\ \A p \in Places(r.trace, {"flush", "rt_del"}) :
                     \A q \in Places(r.trace, {"nft_free", "db_close"}) : p < q

\* The bridge Started with a filter rule and a route applied, and a close
\* whose flush fails: the kernel operations of stop, then the two releases.
C10_Witness ==
    /\ status = "Started"
    /\ \E i \in DOMAIN fw : fw[i].applied
    /\ \E j \in DOMAIN rt : rt[j].applied
    /\ \E env \in Envs(TRUE, StopKernel) :
        LET r == firewall_bridge_close(Cur, env)
        IN /\ r.ret = "Ok" /\ r.status = "Uninitialized" /\ AllCleared(r)
           /\ Len(r.trace) >= 4 /\ ~r.trace[1].ok /\ r.knft # {}

\* The state with the bridge's memory as a new process has it.
Fresh(m) ==
    [m EXCEPT !.status = "Uninitialized", !.db = FALSE, !.nft = FALSE,
              !.last_error = ""]

\* C11: init(path) with a non-empty path gives, from every lifecycle state,
\* the result it gives a new process over the same store and kernel faults
\* (so never an error for being initialized already); from a state other
\* than Uninitialized it first closes the incarnation: the kernel operations
\* of stop if Started, then the release of both handles, all before the
\* table is ensured; on Ok the status is Initialized, the handles are held,
\* the config state is "initialized" and no row is applied; on an error the
\* bridge is left Uninitialized.
C11_ReinitAutoCloses ==
    \A env \in Envs(TRUE, InitFaults) :
        LET r == firewall_bridge_init(Cur, env, "db")
            t == r.trace
        IN /\ r.ret = firewall_bridge_init(Fresh(Cur), env, "db").ret
           /\ r.ret \in {"Ok", "NftablesFailed"}
           /\ (env.kfail \cap {<<"ctx_new", 0>>, <<"ensure", 0>>} = {}) => r.ret = "Ok"
           /\ r.ret = "Ok" =>
                /\ r.status = "Initialized" /\ r.db /\ r.nft
                /\ r.cfg = "initialized" /\ r.last_error = ""
                /\ AllCleared(r)
           /\ r.ret # "Ok" => r.status = "Uninitialized" /\ ~r.db /\ ~r.nft
           /\ nft => Count(t, "nft_free", 0) = 1
           /\ db => Count(t, "db_close", 0) = 1
           /\ status = "Started" =>
                /\ Count(t, "flush", 0) = 1
                /\ \A j \in DOMAIN rt : rt[j].applied => Count(t, "rt_del", j) = 1
                /\ \A p \in Places(t, {"flush", "rt_del"}) :
                     \A q \in Places(t, {"nft_free", "db_close"}) : p < q
           /\ \A p \in Places(t, {"nft_free", "db_close"}) :
                \A q \in Places(t, {"ensure"}) : p < q

\* A Started bridge with a filter rule and a route applied on which init
\* succeeds: stop's kernel operations, the two releases, then the table.
C11_Witness ==
    /\ status = "Started"
    /\ \E i \in DOMAIN fw : fw[i].applied
    /\ \E j \in DOMAIN rt : rt[j].applied
    /\ \E env \in Envs(TRUE, InitFaults) :
        LET r == firewall_bridge_init(Cur, env, "db")
        IN r.ret = "Ok" /\ r.status = "Initialized" /\ Len(r.trace) = 5

\* The id of the group called name in the current state, 0 if there is none.
GroupNamed(name) == get_rule_group(Cur, name)

\* C12: while Started, enable_rule_group on a stored group offers every
\* filter and routing rule of the group to the kernel whichever installs
\* fail, and every rule whose install succeeded ends with applied = true.
C12_EnableSoftFailure ==
    status = "Started" =>
        \A name \in Names :
            GroupNamed(name) # 0 =>
                \A env \in Envs(TRUE, EnableFaults(name)) :
                    LET g == GroupNamed(name)
                        r == fw_enable_rule_group(Cur, env, name)
                    IN /\ \A i \in DOMAIN fw :
                            fw[i].group_id = g => Count(r.trace, "fw_add", i) = 1
                       /\ \A j \in DOMAIN rt :
                            rt[j].group_id = g => Count(r.trace, "rt_add", j) = 1
                       /\ \A p \in Installs(r.trace) :
                            r.trace[p].ok =>
                                IF r.trace[p].k = "fw_add"
                                THEN r.fw[r.trace[p].id].applied
                                ELSE r.rt[r.trace[p].id].applied

\* The kernel removals by handle h in a trace t.
CountH(t, k, h) == Cardinality({p \in 1..Len(t) : t[p].k = k /\ t[p].h = h})

\* C13: while Started, disable_rule_group on a stored group returns Ok
\* whichever removals fail, issues one removal by the recorded handle for
\* each applied filter rule of the group and one for each applied routing
\* rule, none for the unapplied ones, and leaves every rule of the group
\* unapplied with handle 0, the group disabled and the other groups' rows
\* as they were; for a name no group has it returns GroupNotFound and
\* changes neither the store nor the kernel.
C13_DisableRemoves ==
    status = "Started" =>
        \A name \in Names : \A env \in Envs(TRUE, DisableFaults(name)) :
            LET g == GroupNamed(name)
                r == fw_disable_rule_group(Cur, env, name)
            IN IF g = 0
               THEN r.ret = "GroupNotFound" /\ Untouched(r) /\ r.status = status
               ELSE /\ r.ret = "Ok" /\ r.status = "Started"
                    /\ ~r.groups[g].enabled
                    /\ \A h \in DOMAIN groups : h # g => r.groups[h] = groups[h]
                    /\ \A i \in DOMAIN fw :
                        IF fw[i].group_id = g
                        THEN /\ ~r.fw[i].applied /\ r.fw[i].nft_handle = 0
                             /\ fw[i].applied =>
                                    CountH(r.trace, "fw_del", fw[i].nft_handle) = 1
                        ELSE r.fw[i] = fw[i]
                    /\ \A j \in DOMAIN rt :
                        IF rt[j].group_id = g
                        THEN /\ ~r.rt[j].applied
                             /\ Count(r.trace, "rt_del", j) = IF rt[j].applied THEN 1 ELSE 0
                        ELSE r.rt[j] = rt[j]
                    /\ Len(r.trace) =
                         Cardinality({i \in DOMAIN fw : fw[i].group_id = g /\ fw[i].applied})
                         + Cardinality({j \in DOMAIN rt : rt[j].group_id = g /\ rt[j].applied})

\* A Started bridge with a group whose filter rule and route are applied,
\* and a disable in which a removal fails: Ok, the rows cleared, the rule
\* still in the kernel.
C13_Witness ==
    /\ status = "Started"
    /\ \E name \in Names :
        /\ GroupNamed(name) # 0
        /\ \E i \in DOMAIN fw : fw[i].group_id = GroupNamed(name) /\ fw[i].applied
        /\ \E j \in DOMAIN rt : rt[j].group_id = GroupNamed(name) /\ rt[j].applied
        /\ \E env \in Envs(TRUE, DisableFaults(name)) :
            LET r == fw_disable_rule_group(Cur, env, name)
            IN r.ret = "Ok" /\ r.knft # {} /\ r.krt = {} /\ Len(r.trace) = 2

\* What adding a rule must have done to the kernel and the new row: t is the
\* call's trace, k the kind of install, id the new row's id, now says whether
\* the bridge is Started and the group enabled, applied and handle are the
\* new row's fields.
AddPost(r, k, id, now, applied, handle) ==
    /\ r.ret = "Ok"
    /\ IF now
       THEN /\ Len(r.trace) = 1
            /\ r.trace[1].k = k /\ r.trace[1].id = id
            /\ applied <=> r.trace[1].ok
            /\ handle = r.trace[1].h
       ELSE /\ r.trace = <<>> /\ KernelOf(r) = KernelOf(Cur)
            /\ ~applied /\ handle = 0

\* C14: while Started, adding a filter or routing rule to an enabled group
\* offers exactly that rule to the kernel within the call and marks the row
\* applied exactly when the kernel accepted it; adding to a disabled group or
\* while not Started issues no kernel operation and leaves the new row
\* unapplied; removing an applied rule issues its kernel removal (and no
\* install), and at whatever point the process dies inside the call the row
\* is gone only if the removal was issued before.
C14_ImmediateApply ==
    db =>
    /\ \A name \in Names :
        GroupNamed(name) # 0 =>
            LET now == status = "Started" /\ groups[GroupNamed(name)].enabled
            IN /\ \A chain \in Chains : \A env \in Envs(TRUE, FwAddFaults) :
                    LET r == fw_add_rule(Cur, env, name, chain)
                        id == seqFw + 1
                    IN /\ id \in DOMAIN r.fw
                       /\ AddPost(r, "fw_add", id, now,
                                  r.fw[id].applied, r.fw[id].nft_handle)
               /\ \A env \in Envs(TRUE, RtAddFaults) :
                    LET r == rt_add_rule(Cur, env, name)
                        id == seqRt + 1
                    IN /\ id \in DOMAIN r.rt
                       /\ AddPost(r, "rt_add", id, now, r.rt[id].applied, 0)
    /\ \A i \in DOMAIN fw :
        fw[i].applied =>
            /\ \A env \in Envs(TRUE, FwRemoveFaults(i)) :
                LET r == fw_remove_rule(Cur, env, i)
                IN /\ r.ret = "Ok" /\ i \notin DOMAIN r.fw
                   /\ Len(r.trace) = 1 /\ r.trace[1].k = "fw_del"
                   /\ r.trace[1].h = fw[i].nft_handle
            /\ \A env \in CrashEnvs :
                LET r == fw_remove_rule(Cur, env, i)
                IN i \notin DOMAIN r.fw =>
                       CountH(r.trace, "fw_del", fw[i].nft_handle) = 1
    /\ \A j \in DOMAIN rt :
        rt[j].applied =>
            /\ \A env \in Envs(TRUE, RtRemoveFaults(j)) :
                LET r == rt_remove_rule(Cur, env, j)
                IN /\ r.ret = "Ok" /\ j \notin DOMAIN r.rt
                   /\ Len(r.trace) = 1 /\ r.trace[1].k = "rt_del"
                   /\ r.trace[1].id = j
            /\ \A env \in CrashEnvs :
                LET r == rt_remove_rule(Cur, env, j)
                IN j \notin DOMAIN r.rt => Count(r.trace, "rt_del", j) = 1

\* A Started bridge with an enabled and a disabled group and an applied
\* filter rule and route: an add to the enabled group installs the rule, an
\* add to the disabled one does not.
C14_Witness ==
    /\ status = "Started"
    /\ \E i \in DOMAIN fw : fw[i].applied
    /\ \E j \in DOMAIN rt : rt[j].applied
    /\ \E a, b \in Names :
        /\ GroupNamed(a) # 0 /\ groups[GroupNamed(a)].enabled
        /\ GroupNamed(b) # 0 /\ ~groups[GroupNamed(b)].enabled
        /\ \E env \in Envs(TRUE, FwAddFaults) :
            /\ fw_add_rule(Cur, env, a, "input").fw[seqFw + 1].applied
            /\ ~fw_add_rule(Cur, env, b, "input").fw[seqFw + 1].applied

\* C15: in every reachable state each filter and routing row references a
\* stored group; delete_rule_group on a stored group returns Ok and removes
\* the group with all its rows and nothing else; when Started it issues the
\* kernel removal of each applied rule of the group, and at whatever point
\* the process dies inside the call the rows are gone only if those removals
\* were issued before.
C15_DeleteCascades ==
    /\ \A i \in DOMAIN fw : fw[i].group_id \in DOMAIN groups
    /\ \A j \in DOMAIN rt : rt[j].group_id \in DOMAIN groups
    /\ db =>
        \A name \in Names :
            LET g == GroupNamed(name)
                Removed(r) ==
                    /\ \A i \in DOMAIN fw :
                        (fw[i].group_id = g /\ fw[i].applied) =>
                            CountH(r.trace, "fw_del", fw[i].nft_handle) = 1
                    /\ \A j \in DOMAIN rt :
                        (rt[j].group_id = g /\ rt[j].applied) =>
                            Count(r.trace, "rt_del", j) = 1
            IN g # 0 =>
                /\ \A env \in Envs(TRUE, DisableFaults(name)) :
                    LET r == fw_delete_rule_group(Cur, env, name)
                    IN /\ r.ret = "Ok"
                       /\ DOMAIN r.groups = DOMAIN groups \ {g}
                       /\ \A h \in DOMAIN r.groups : r.groups[h] = groups[h]
                       /\ DOMAIN r.fw = {i \in DOMAIN fw : fw[i].group_id # g}
                       /\ \A i \in DOMAIN r.fw : r.fw[i] = fw[i]
                       /\ DOMAIN r.rt = {j \in DOMAIN rt : rt[j].group_id # g}
                       /\ \A j \in DOMAIN r.rt : r.rt[j] = rt[j]
                       /\ Removed(r)
                       /\ env.kfail = {} =>
                            /\ \A i \in DOMAIN fw :
                                fw[i].group_id = g =>
                                    ~\E k \in r.knft : k.handle = fw[i].nft_handle
                            /\ \A j \in DOMAIN rt : rt[j].group_id = g => j \notin r.krt
                /\ \A env \in CrashEnvs :
                    LET r == fw_delete_rule_group(Cur, env, name)
                    IN g \notin DOMAIN r.groups => Removed(r)

\* A Started bridge with two groups, one holding an applied filter rule and
\* an applied route, the other a rule of its own, and a delete of the first
\* that returns Ok.
C15_Witness ==
    /\ status = "Started"
    /\ \E name \in Names :
        LET g == GroupNamed(name)
        IN /\ g # 0
           /\ \E i \in DOMAIN fw : fw[i].group_id = g /\ fw[i].applied
           /\ \E j \in DOMAIN rt : rt[j].group_id = g /\ rt[j].applied
           /\ \E i \in DOMAIN fw : fw[i].group_id # g
           /\ \E env \in Envs(TRUE, DisableFaults(name)) :
                LET r == fw_delete_rule_group(Cur, env, name)
                IN r.ret = "Ok" /\ Len(r.trace) = 2 /\ DOMAIN r.fw # {}

\* C16: in every reachable state no two groups have the same name; creating
\* a group under a name a stored group has, directly or through the
\* kill-switch preset, fails (NULL) and leaves the store and the kernel as
\* they were.
C16_UniqueNames ==
    /\ \A g, h \in DOMAIN groups : groups[g].name = groups[h].name => g = h
    /\ db =>
        \A name \in Names :
            GroupNamed(name) # 0 =>
                /\ \A priority \in Priorities : \A env \in Envs(TRUE, {{}}) :
                    LET r == fw_create_rule_group(Cur, env, name, priority)
                    IN r.ret = "Null" /\ Untouched(r) /\ r.last_error # ""
                /\ name = KillSwitch =>
                    \A wstunnel \in BOOLEAN : \A env \in Envs(TRUE, {{}}) :
                        LET r == fw_apply_preset_kill_switch(Cur, env, wstunnel)
                        IN /\ r.ret = "Null" /\ Untouched(r) /\ r.last_error # ""
                           /\ r.trace = <<>>

\* A Started bridge whose group "kill-switch" holds a rule, beside a second
\* group: a create under either name and the preset are all refused.
C16_Witness ==
    /\ status = "Started"
    /\ Cardinality(DOMAIN groups) = 2
    /\ GroupNamed(KillSwitch) # 0
    /\ \E i \in DOMAIN fw : fw[i].group_id = GroupNamed(KillSwitch)
    /\ \A name \in Names : \E env \in Envs(TRUE, {{}}) :
        fw_create_rule_group(Cur, env, name, 1).ret = "Null"
    /\ \E env \in Envs(TRUE, {{}}) :
        fw_apply_preset_kill_switch(Cur, env, TRUE).ret = "Null"

\* The sort key of group g.
GroupKey(g) == <<groups[g].priority, groups[g].name>>

\* C17: list_rule_groups returns every stored group once, in strictly
\* ascending (priority, name); enabled_groups returns that list without the
\* groups that are not enabled.
C17_GroupListOrder ==
    LET L == list_rule_groups(Cur)
        E == enabled_groups(Cur)
    IN /\ {L[p] : p \in 1..Len(L)} = DOMAIN groups
       /\ Len(L) = Cardinality(DOMAIN groups)
       /\ \A p, q \in 1..Len(L) : p < q => LexLess(GroupKey(L[p]), GroupKey(L[q]))
       /\ E = SelectSeq(L, LAMBDA g : groups[g].enabled)

\* Two groups of which the one created later, with the greater name, has the
\* smaller priority and comes first, the other one disabled.
C17_Witness ==
    /\ db
    /\ \E g, h \in DOMAIN groups :
        /\ g < h /\ groups[g].name < groups[h].name
        /\ groups[h].priority < groups[g].priority
        /\ ~groups[g].enabled /\ groups[h].enabled
        /\ list_rule_groups(Cur) = <<h, g>>
        /\ enabled_groups(Cur) = <<h>>

\* C18: on the open store, set_config_flag with a column outside the three
\* flags returns an error and leaves the store as it was; with one of the
\* three it returns Ok, gives that flag the value and leaves the state label,
\* the other two flags and the rest of the store as they were.
C18_ConfigFlagAllowList ==
    db =>
        \A column \in Columns : \A value \in BOOLEAN :
            LET r == set_config_flag(Cur, column, value)
            IN IF column \in Flags
               THEN /\ r.ret = "Ok"
                    /\ r.flags[column] = value
                    /\ \A c \in Flags \ {column} : r.flags[c] = flags[c]
                    /\ r.cfg = cfg
                    /\ StoreOf([r EXCEPT !.flags = flags]) = StoreOf(Cur)
               ELSE r.ret = "Err" /\ StoreOf(r) = StoreOf(Cur)

\* A Started bridge whose config row says "started" with one flag set and
\* two clear, on which a second flag can be set and a column that is no flag
\* is refused.
C18_Witness ==
    /\ db /\ status = "Started" /\ cfg = "started"
    /\ flags["ipv6_blocked"] /\ ~flags["ip_forward_enabled"]
    /\ ~flags["kill_switch_active"]
    /\ set_config_flag(Cur, "kill_switch_active", TRUE).flags
         = [flags EXCEPT !["kill_switch_active"] = TRUE]
    /\ set_config_flag(Cur, "state", TRUE).ret = "Err"

\* The elements of a sequence.
Range(q) == {q[p] : p \in 1..Len(q)}

\* Rule-node n of a dump carries the comment c.
Carries(n, c) == n.comment = c \/ \E q \in 1..Len(n.expr) : n.expr[q] = c

\* C19: for every dump, missing_in_kernel lists once each filter row with
\* applied = true whose tag phantom-rule-<id> no rule-node carries, and no
\* other row; in_sync is true exactly when both lists are empty; and when the
\* table holds no rule at all every applied row is missing, nothing is extra
\* and in_sync is false if there is an applied row.
C19_MissingInKernel ==
    (db /\ nft) =>
        \A X \in ForeignDumps :
            LET dump == KernelDump(Cur, X)
                v == verify_rules(Cur, dump)
                Applied == {i \in DOMAIN fw : fw[i].applied}
            IN /\ Range(v.missing_in_kernel) =
                    {i \in Applied :
                        \A p \in 1..Len(dump) : ~Carries(dump[p], comment_tag(i))}
               /\ Len(v.missing_in_kernel) = Cardinality(Range(v.missing_in_kernel))
               /\ v.in_sync <=> (v.missing_in_kernel = <<>> /\ v.extra_in_kernel = <<>>)
               /\ dump = <<>> =>
                    /\ Range(v.missing_in_kernel) = Applied
                    /\ v.extra_in_kernel = <<>>
                    /\ v.in_sync <=> Applied = {}

\* Started with two applied rows and an empty table, as an external flush
\* leaves them: both rows missing, nothing extra, not in sync.
C19_Witness ==
    /\ status = "Started" /\ knft = {}
    /\ Cardinality({i \in DOMAIN fw : fw[i].applied}) = 2
    /\ LET v == verify_rules(Cur, KernelDump(Cur, <<>>))
       IN /\ Len(v.missing_in_kernel) = 2 /\ v.extra_in_kernel = <<>>
          /\ ~v.in_sync

\* The comment of rule-node n, wherever the node has it.
CommentIn(n) ==
    IF n.comment.some THEN n.comment
    ELSE IF n.expr # <<>> THEN n.expr[1] ELSE NoComment

\* C20: for every dump, extra_in_kernel lists once each rule-node whose
\* comment begins with phantom-rule- and does not hold the id of a row with
\* applied = true, and no other node; a dump without its rule-nodes that
\* have no such comment gives the same two lists and the same in_sync.
C20_ExtraInKernel ==
    (db /\ nft) =>
        \A X \in ForeignDumps :
            LET dump == KernelDump(Cur, X)
                v == verify_rules(Cur, dump)
                Applied == {i \in DOMAIN fw : fw[i].applied}
                Tagged(n) == CommentIn(n).some /\ CommentIn(n).pre
                w == verify_rules(Cur, SelectSeq(dump, Tagged))
            IN /\ {e.handle : e \in Range(v.extra_in_kernel)} =
                    {n.handle : n \in
                        {n \in Range(dump) :
                            /\ Tagged(n)
                            /\ ~(CommentIn(n).parses /\ CommentIn(n).num \in Applied)}}
               /\ Len(v.extra_in_kernel) = Cardinality(Range(v.extra_in_kernel))
               /\ w.missing_in_kernel = v.missing_in_kernel
               /\ w.extra_in_kernel = v.extra_in_kernel
               /\ w.in_sync = v.in_sync

\* An initialized bridge over a table that still holds the rule of a row no
\* longer applied (a crash left it): that node is extra; beside it a foreign
\* node with another comment is not, and one with a numberless tag is.
C20_Witness ==
    /\ db /\ nft /\ knft # {}
    /\ \A i \in DOMAIN fw : ~fw[i].applied
    /\ \E X \in ForeignDumps :
        /\ Len(X) = 1 /\ X[1].comment = OtherComment
        /\ Len(verify_rules(Cur, KernelDump(Cur, X)).extra_in_kernel)
             = Cardinality(knft)
    /\ \E X \in ForeignDumps :
        /\ Len(X) = 1 /\ X[1].comment = JunkTag
        /\ Len(verify_rules(Cur, KernelDump(Cur, X)).extra_in_kernel)
             = Cardinality(knft) + 1

\* The outcomes of the API calls that can report failure, over the names,
\* ids and paths a caller can pass.
ApiOutcomes(env) ==
    {firewall_bridge_init(Cur, env, path) : path \in {"", "db"}}
    \cup {firewall_bridge_start(Cur, env), firewall_bridge_stop(Cur, env)}
    \cup {fw_create_rule_group(Cur, env, name, 1) : name \in Names \cup {NoName}}
    \cup {fw_delete_rule_group(Cur, env, name) : name \in Names \cup {NoName}}
    \cup {fw_enable_rule_group(Cur, env, name) : name \in Names}
    \cup {fw_disable_rule_group(Cur, env, name) : name \in Names}
    \cup {fw_add_rule(Cur, env, name, "input") : name \in Names}
    \cup {rt_add_rule(Cur, env, name) : name \in Names}
    \cup {fw_remove_rule(Cur, env, id) : id \in 1..MaxFw}
    \cup {rt_remove_rule(Cur, env, id) : id \in 1..MaxRt}

\* C21: every API call that reports failure (an error code or NULL) returns
\* with a non-empty last_error.
C21_FailureWritesLastError ==
    \A env \in Envs(FALSE, {{}}) :
        \A r \in ApiOutcomes(env) :
            r.ret # "Ok" => r.last_error # ""

\* The rows of group g are all applied.
GroupApplied(r, g) ==
    /\ \A i \in DOMAIN r.fw : r.fw[i].group_id = g => r.fw[i].applied
    /\ \A j \in DOMAIN r.rt : r.rt[j].group_id = g => r.rt[j].applied

\* C22: a mutating call that returns an error has left the store as it was
\* or has completed its transition: start (with installs or one store
\* operation failing) has stored "started"; enable_rule_group (with installs
\* failing) has the group enabled and all its rules applied; the kill-switch
\* preset (with one store operation failing) has stored the group and all
\* its rules.
C22_FailedCallsAtomic ==
    /\ status \in {"Initialized", "Stopped"} =>
        \A env \in Envs(TRUE, StartFaults) :
        \A F \in Faulty(firewall_bridge_start(Cur, env).n, MaxDbFaults) :
            LET r == firewall_bridge_start(Cur, WithFaults(env, F))
            IN r.ret # "Ok" =>
                \/ StoreOf(r) = StoreOf(Cur)
                \/ r.status = "Started" /\ r.cfg = "started"
    /\ status = "Started" =>
        \A name \in Names : \A env \in Envs(TRUE, EnableFaults(name)) :
            LET r == fw_enable_rule_group(Cur, env, name)
            IN r.ret # "Ok" =>
                \/ StoreOf(r) = StoreOf(Cur)
                \/ /\ r.groups[GroupNamed(name)].enabled
                   /\ GroupApplied(r, GroupNamed(name))
    /\ db =>
        \A wstunnel \in BOOLEAN : \A env \in Envs(FALSE, {{}}) :
        \A F \in Faulty(fw_apply_preset_kill_switch(Cur, env, wstunnel).n, MaxDbFaults) :
            LET r == fw_apply_preset_kill_switch(Cur, WithFaults(env, F), wstunnel)
                g == get_rule_group(r, KillSwitch)
            IN r.ret # "Ok" =>
                \/ StoreOf(r) = StoreOf(Cur)
                \/ /\ g # 0
                   /\ Len(firewall_rules_for_group(r, g)) = Len(kill_switch_chains(wstunnel))

\* C23: a thread is inside a call only while it holds the lock, so at most
\* one is; the state its call started on is one no other call was working
\* on, so the call's result and the state it leaves are those of the calls
\* run one after the other in the order they took the lock; and when no
\* thread holds the lock the state is the one that serial run gives.
C23_Serialized ==
    /\ \A t \in Threads : run[t].op # "idle" =>
        /\ lock = t
        /\ Apply(run[t].op, run[t].base, NoFaults) = serial
        /\ StoreOf(Cur) = StoreOf(InFlight(run[t].op, run[t].base, run[t].k))
        /\ KernelOf(Cur) = KernelOf(InFlight(run[t].op, run[t].base, run[t].k))
    /\ lock = 0 =>
        /\ \A t \in Threads : run[t].op = "idle"
        /\ Cur = Clean(serial)

\* Thread 1 is inside a start that has applied one of two rules while
\* thread 2 waits outside its call.
C23_Witness ==
    /\ lock = 1 /\ run[1].op = "start" /\ run[2].op = "idle"
    /\ status = "Initialized"
    /\ Cardinality({i \in DOMAIN fw : fw[i].applied}) = 1
    /\ Cardinality(DOMAIN fw) = 2

\* C24: after an init that returns Ok the private table exists and has the
\* four base chains input, forward, output and postrouting; and ensure_table
\* on a kernel that has them succeeds and leaves the kernel as it is.
C24_BaseChains ==
    \A env \in Envs(TRUE, InitFaults) :
        LET r == firewall_bridge_init(Cur, env, "db")
        IN r.ret = "Ok" =>
            /\ r.ktable
            /\ {"input", "forward", "output", "postrouting"} \subseteq r.kchains
            /\ ensure_ok(r, env)
            /\ KernelOf(ensure_table(r, env)) = KernelOf(r)

C26_MultihopRules ==
    db =>
        \A name \in Names : get_rule_group(Cur, name) = 0 =>
        \A fwmark \in {0, 1, 100, 2147483647} : \A env \in Envs(FALSE, {{}}) :
            LET r == fw_apply_preset_multihop(Cur, env, name, fwmark)
                g == get_rule_group(r, name)
                frows == firewall_rules_for_group(r, g)
                rrows == routing_rules_for_group(r, g)
                routing == multihop_routing("wg1", fwmark, 100, "10.0.0.0/24")
                filter == multihop_filter("wg0", "wg1")
                w == IF fwmark > 0 THEN 1 ELSE 0
            IN /\ r.ret = "Ok" /\ g # 0 /\ r.groups[g].priority = 80
               /\ Len(frows) = 2 /\ Len(filter) = 2
               /\ \A p \in 1..2 :
                    /\ r.fw[frows[p]].position = p - 1
                    /\ r.fw[frows[p]].chain = "forward"
                    /\ filter[p].chain = "forward" /\ filter[p].rule_type = "accept"
               /\ filter[1].in_iface = "wg0" /\ filter[1].out_iface = "wg1"
               /\ filter[1].state_match = ""
               /\ filter[2].in_iface = "wg1" /\ filter[2].out_iface = "wg0"
               /\ filter[2].state_match = "established,related"
               /\ Len(rrows) = 3 + w /\ Len(routing) = 3 + w
               /\ \A p \in 1..(3 + w) : rrows[p] = seqRt + p
               /\ routing[1].rule_type = "table"
               /\ routing[2].rule_type = "policy"
               /\ routing[2].from_network = "10.0.0.0/24" /\ routing[2].fwmark = 0
               /\ routing[3].rule_type = "route"
               /\ routing[3].destination = "default" /\ routing[3].device = "wg1"
               /\ w = 1 =>
                    /\ routing[4].rule_type = "policy" /\ routing[4].priority = 200
                    /\ routing[4].fwmark = fwmark

\* An open store that holds a group, a filter rule and no group of the
\* preset's name, on which the preset with fwmark 100 stores 2 + 4 rules and
\* with fwmark 0 stores 2 + 3.
C26_Witness ==
    /\ db /\ get_rule_group(Cur, 2) = 0 /\ DOMAIN groups # {} /\ DOMAIN fw # {}
    /\ \E env \in Envs(FALSE, {{}}) :
        LET r == fw_apply_preset_multihop(Cur, env, 2, 100)
            q == fw_apply_preset_multihop(Cur, env, 2, 0)
        IN /\ r.ret = "Ok" /\ q.ret = "Ok"
           /\ Cardinality(DOMAIN r.fw) = Cardinality(DOMAIN fw) + 2
           /\ Cardinality(DOMAIN r.rt) = Cardinality(DOMAIN rt) + 4
           /\ Cardinality(DOMAIN q.rt) = Cardinality(DOMAIN rt) + 3

\* C27: an API call in which a routing operation fails returns
\* PermissionDenied (the netlink socket could not be created for EPERM) or
\* NetlinkFailed (every other netlink failure); the call taken is
\* enable_rule_group on a started bridge, whose failing rule is a routing
\* rule, and open() gives these two codes for its failures.
C27_NetlinkErrorCodes ==
    status = "Started" =>
        \A name \in Names : \A env \in Envs(TRUE, EnableFaults(name)) :
            LET r == fw_enable_rule_group(Cur, env, name)
                n == Len(r.trace)
            IN (r.ret # "Ok" /\ n > 0 /\ r.trace[n].k = "rt_add" /\ ~r.trace[n].ok) =>
                /\ r.ret \in {"PermissionDenied", "NetlinkFailed"}
                /\ \A io \in NlIo :
                    /\ io.sock = "EPERM" => open(io).code = "PermissionDenied"
                    /\ (io.sock = "EMFILE" \/ (io.sock = "ok" /\ ~io.bind)) =>
                            open(io).code = "NetlinkFailed"

\* C28: of two requests the adapter has sent in the process, the later one
\* carries the greater sequence number.
C28_SeqIncreases ==
    \A p, q \in 1..Len(sent) : p < q => sent[p].seq < sent[q].seq

\* C29: the send-and-acknowledge step of a routing operation gives Ok only for a reply that is an acknowledgement
\* (an NLMSG_ERROR message with its header and its 4-byte code) whose code
\* is 0; a non-zero code gives an error with the OS error of -code; a reply
\* shorter than the header, an error header without its code, or a message
\* that is no acknowledgement gives an error.
C29_AckOnly ==
    \A op \in NlOps : \A io \in NlIo :
        (io.sock = "ok" /\ io.bind /\ io.prep) =>
            LET r == request(op, io, sent).ret
                ack == io.send /\ io.len >= NlMsgHdrSize + 4 /\ io.type = NLMSG_ERROR
            IN /\ r = send_and_ack(io)
               /\ r.ok => (ack /\ io.err = 0)
               /\ (ack /\ io.err # 0) => (~r.ok /\ r.errno = 0 - io.err)

\* Rule-node n of a dump is what query q asks for.
Asked(n, q) ==
    /\ n.key = "rule" /\ n.chain = q.chain /\ n.family = q.family
    /\ (q.proto = "" \/ n.proto = q.proto)
    /\ (q.dport = 0 \/ n.dport = q.dport)
    /\ n.action = q.action

\* C30: the lookup gives the handle of the first rule-node of the dump whose
\* chain, family, protocol, port and action are the query's, whatever
\* nodes that are no rules stand before it, and no handle (0) only when the
\* dump has no such rule-node.
C30_FirstMatchingHandle ==
    LET d == lookup.dump
        M == {p \in 1..Len(d) : Asked(d[p], lookup.query)}
    IN lookup.query = NoQuery
       \/ IF M = {} THEN lookup.found = 0
          ELSE lookup.found = d[CHOOSE p \in M : \A x \in M : p <= x].handle

\* C31: whenever the bridge is open with status Initialized or Stopped, the
\* private table holds no filter rule and the kernel no routing rule of the
\* bridge, the kernel operations of stop succeeding; the states after a
\* death while Started and a new init, and after a start and a stop from
\* there, are among them.
C31_KernelEmptyUnlessStarted ==
    (db /\ status \in {"Initialized", "Stopped"}) => (knft = {} /\ krt = {})

\* verify_rules on the table as the bridge left it reports in_sync.
InSync(r) == verify_rules(r, KernelDump(r, <<>>)).in_sync

\* No kernel operation of the call failed.
AllOk(r) == \A p \in 1..Len(r.trace) : r.trace[p].ok

\* The outcomes of the API calls that change rules, in a kernel and over a
\* store that do not fail.
RuleCalls ==
    LET env == NoFaults
    IN {firewall_bridge_start(Cur, env), fw_flush_table(Cur, env)}
       \cup {fw_enable_rule_group(Cur, env, name) : name \in Names}
       \cup {fw_disable_rule_group(Cur, env, name) : name \in Names}
       \cup {fw_delete_rule_group(Cur, env, name) : name \in Names}
       \cup (IF seqFw < MaxFw
             THEN {fw_add_rule(Cur, env, name, "input") : name \in Names} ELSE {})
       \cup {fw_remove_rule(Cur, env, id) : id \in 1..MaxFw}

\* C32: with the kernel changed by the bridge's calls alone and no adapter
\* call failing, the table is in sync with the store after every call that
\* leaves the bridge Started: start, and from a Started state that is in
\* sync enable, disable and delete of a group, add and remove of a rule and
\* flush_table.
C32_InSyncWhileStarted ==
    (status \in {"Initialized", "Stopped"} \/ (status = "Started" /\ InSync(Cur))) =>
        \A r \in RuleCalls :
            (r.status = "Started" /\ AllOk(r)) => InSync(r)

\* C33: at any time the private table holds at most one rule installed for
\* a filter-rule row (one rule with the tag of an id), whatever start,
\* enable, disable, add and remove calls were made, an enable of a group
\* that is already enabled while Started among them.
C33_OneKernelRulePerRow ==
    \A a \in knft : \A b \in knft : a.id = b.id => a = b

\* C34: after a start() that returns Ok, last_error is non-empty exactly
\* when an install of a filter or routing rule failed in that start; a
\* start whose installs all succeeded leaves it empty whatever earlier
\* calls had written.
C34_StartLastError ==
    status \in {"Initialized", "Stopped"} =>
        \A env \in Envs(TRUE, StartFaults) :
            LET r == firewall_bridge_start(Cur, env)
            IN r.ret = "Ok" =>
                (r.last_error # "" <=>
                    \E p \in Installs(r.trace) : ~r.trace[p].ok)

\* C35: whenever the store is open after a call has returned, the state
\* column of the config row is the label of the status in memory, also
\* after a start or a stop that returned an error.
C35_StateLabelMatches ==
    db => cfg = as_str(status)

\* The store open and Initialized with a row left applied: a start has
\* installed the rule and then returned an error.
C35_Witness ==
    /\ db /\ status = "Initialized" /\ cfg = "initialized"
    /\ last_error # ""
    /\ \E i \in DOMAIN fw : fw[i].applied

\* C36: in every reachable state the store handle and the filter context
\* are both held or both absent, and held exactly when the status is not
\* Uninitialized; an init that fails at any step (store open, config
\* write, flag clearing, context creation, table creation, state write)
\* leaves the status Uninitialized and neither held, from an initialized or
\* started bridge too.
C36_HandlesWithStatus ==
    /\ db <=> nft
    /\ db <=> (status # "Uninitialized")
    /\ \A env \in Envs(TRUE, InitFaults) :
       \A F \in Faulty(firewall_bridge_init(Cur, env, "db").n, MaxDbFaults) :
           LET r == firewall_bridge_init(Cur, WithFaults(env, F), "db")
           IN r.ret # "Ok" => (r.status = "Uninitialized" /\ ~r.db /\ ~r.nft)

\* A started bridge with an installed rule on which init fails at the
\* creation of the table and at the clearing of the flags.
C36_Witness ==
    /\ status = "Started" /\ db /\ nft
    /\ \E i \in DOMAIN fw : fw[i].applied
    /\ \E env \in Envs(TRUE, InitFaults) :
        LET r == firewall_bridge_init(Cur, env, "db")
        IN r.ret = "NftablesFailed" /\ r.status = "Uninitialized" /\ ~r.db /\ ~r.nft
    /\ \E F \in Faulty(firewall_bridge_init(Cur, NoFaults, "db").n, MaxDbFaults) :
        LET r == firewall_bridge_init(Cur, WithFaults(NoFaults, F), "db")
        IN r.ret = "DbWrite" /\ r.status = "Uninitialized" /\ ~r.db /\ ~r.nft

\* C37: whatever add_rule and remove_rule calls were made on a group, start
\* offers the group's remaining filter rules to the kernel in the order in
\* which they were added (ids are given in that order).
C37_StartInAdditionOrder ==
    status \in {"Initialized", "Stopped"} =>
        LET t == firewall_bridge_start(Cur, NoFaults).trace
        IN \A p \in 1..Len(t) : \A q \in 1..Len(t) :
            (/\ p < q /\ t[p].k = "fw_add" /\ t[q].k = "fw_add"
             /\ fw[t[p].id].group_id = fw[t[q].id].group_id)
                => t[p].id < t[q].id

\* What outcome r left alone of the groups other than g: their rows, the
\* rows of their rules and the kernel rules installed for those.
OthersKept(r, g) ==
    /\ \A h \in DOMAIN groups \ {g} : h \in DOMAIN r.groups /\ r.groups[h] = groups[h]
    /\ \A i \in DOMAIN fw :
        fw[i].group_id # g => (i \in DOMAIN r.fw /\ r.fw[i] = fw[i])
    /\ \A j \in DOMAIN rt :
        rt[j].group_id # g => (j \in DOMAIN r.rt /\ r.rt[j] = rt[j])
    /\ {k \in r.knft : k.id \in DOMAIN fw /\ fw[k.id].group_id # g}
         = {k \in knft : k.id \in DOMAIN fw /\ fw[k.id].group_id # g}
    /\ {j \in r.krt : j \in DOMAIN rt /\ rt[j].group_id # g}
         = {j \in krt : j \in DOMAIN rt /\ rt[j].group_id # g}

\* What outcome r left alone of the rules other than filter rule i and
\* routing rule j (0 for none).
RulesKept(r, i, j) ==
    /\ r.groups = groups
    /\ \A x \in DOMAIN fw \ {i} : x \in DOMAIN r.fw /\ r.fw[x] = fw[x]
    /\ \A y \in DOMAIN rt \ {j} : y \in DOMAIN r.rt /\ r.rt[y] = rt[y]
    /\ {k \in r.knft : k.id # i} = {k \in knft : k.id # i}
    /\ r.krt \ {j} = krt \ {j}

\* C38: enable, disable and delete of a group change the enabled flag, the
\* applied flags, the handles and the kernel rules of that group alone, and
\* add_rule and remove_rule those of the one rule; the rows and the
\* installed rules of every other group stay as they are, whichever kernel
\* operations of the call fail.
C38_OtherGroupsUntouched ==
    /\ \A name \in Names :
        LET g == get_rule_group(Cur, name)
        IN /\ \A env \in Envs(TRUE, EnableFaults(name)) :
                OthersKept(fw_enable_rule_group(Cur, env, name), g)
           /\ \A env \in Envs(TRUE, DisableFaults(name)) :
                /\ OthersKept(fw_disable_rule_group(Cur, env, name), g)
                /\ OthersKept(fw_delete_rule_group(Cur, env, name), g)
           /\ \A env \in Envs(TRUE, FwAddFaults) :
                RulesKept(fw_add_rule(Cur, env, name, "input"), seqFw + 1, 0)
           /\ \A env \in Envs(TRUE, RtAddFaults) :
                RulesKept(rt_add_rule(Cur, env, name), 0, seqRt + 1)
    /\ \A i \in 1..MaxFw : \A env \in Envs(TRUE, FwRemoveFaults(i)) :
            RulesKept(fw_remove_rule(Cur, env, i), i, 0)
    /\ \A j \in 1..MaxRt : \A env \in Envs(TRUE, RtRemoveFaults(j)) :
            RulesKept(rt_remove_rule(Cur, env, j), 0, j)

\* A started bridge with two groups, each with an installed filter rule:
\* the disable of one removes its rule from the kernel and leaves the
\* other's, and the enable of a disabled one installs its rule.
C38_Witness ==
    /\ status = "Started"
    /\ Cardinality(DOMAIN groups) = 2
    /\ \E a \in DOMAIN fw : \E b \in DOMAIN fw :
        /\ fw[a].group_id # fw[b].group_id
        /\ fw[a].applied /\ fw[b].applied
        /\ LET r == fw_disable_rule_group(Cur, NoFaults, groups[fw[a].group_id].name)
           IN /\ r.ret = "Ok" /\ ~r.fw[a].applied /\ r.fw[b].applied
              /\ {k.id : k \in r.knft} = {b}
              /\ ~r.groups[fw[a].group_id].enabled /\ r.groups[fw[b].group_id].enabled

\* C39: remove_rule with an id no stored row has returns RuleNotFound and
\* leaves the store and the kernel as they were, with the id of a stored
\* row it returns Ok and deletes that row and no other; for filter rules and
\* for routing rules.
C39_RemoveUnknownRule ==
    db =>
        /\ \A id \in 1..(MaxFw + 1) :
            LET r == fw_remove_rule(Cur, NoFaults, id)
            IN IF id \in DOMAIN fw
               THEN /\ r.ret = "Ok"
                    /\ r.fw = Without(fw, {id}) /\ r.rt = rt /\ r.groups = groups
               ELSE r.ret = "RuleNotFound" /\ Untouched(r)
        /\ \A id \in 1..(MaxRt + 1) :
            LET r == rt_remove_rule(Cur, NoFaults, id)
            IN IF id \in DOMAIN rt
               THEN /\ r.ret = "Ok"
                    /\ r.rt = Without(rt, {id}) /\ r.fw = fw /\ r.groups = groups
               ELSE r.ret = "RuleNotFound" /\ Untouched(r)

\* Thread t is in a call and does not wait for a lock another thread holds.
Ready(t) ==
    /\ pc[t].op # "idle"
    /\ At(t).do = "lock" => held[At(t).on] = 0

\* C40: no interleaving of calls of the entry points deadlocks, set_log_callback
\* and get_last_error beside calls that log among them: whenever threads are
\* inside calls one of them can go on, a thread that asks for STATE holds
\* no lock, and a thread of a with_state call that holds LOG_CALLBACK or
\* LAST_ERR holds STATE.
C40_NoDeadlock ==
    /\ (\E t \in Threads : pc[t].op # "idle") => \E t \in Threads : Ready(t)
    /\ \A t \in Threads :
        (pc[t].op # "idle" /\ At(t).do = "lock" /\ At(t).on = "STATE") =>
            \A l \in Locks : held[l] # t
    /\ \A t \in Threads :
        (pc[t].op \in {"init", "start", "stop", "close", "get_last_error"}
         /\ (held["LOG_CALLBACK"] = t \/ held["LAST_ERR"] = t)) =>
            held["STATE"] = t

\* One thread inside a successful start holds STATE and waits for
\* LOG_CALLBACK, which a thread inside set_log_callback holds.
C40_Witness ==
    \E t \in Threads : \E u \in Threads :
        /\ t # u
        /\ pc[t].op = "start" /\ held["STATE"] = t /\ status = "Started"
        /\ At(t) = Take("LOG_CALLBACK")
        /\ pc[u].op = "set_log_callback" /\ held["LOG_CALLBACK"] = u

====
